---- MODULE Spec2Model ----
(***************************************************************************)
(* A model of numpy_nn/modules/np_nn.py: layers with hand written forward  *)
(* and backward passes, the Sequential container and the optimizers.       *)
(*                                                                         *)
(* Tensors are nested sequences of integers (1-based), so all arithmetic   *)
(* is exact.  Python's None is the empty sequence: no tensor of the model  *)
(* is empty.                                                               *)
(***************************************************************************)
EXTENDS Integers, Sequences, FiniteSets, TLC

None == <<>>

VARIABLES
    \* the Conv2dWithLoops and the Conv2d instance compared side by side, what
    \* their last forward and backward returned, and the caller's position
    loops, mm, convOut, convPhase,
    \* TrainableLayer.id_iter (the next value of itertools.count()) and the
    \* values it has handed out so far
    id_iter, issued,
    \* the objects alive: a sequence of records, an object's handle is its index
    objs,
    \* the parameter arrays (np.ndarray objects) alive; a layer holds the index
    \* of its weights and of its bias, so that two names can share one array
    arrays,
    \* the calls made during the last top-level call, in the order they returned
    calls,
    \* the last top-level call: what was called on which object, with which
    \* argument, and what it returned or raised
    outcome,
    \* for every object the value its last forward call returned (None: never)
    fwdOut

vars == <<loops, mm, convOut, convPhase, id_iter, issued, objs, arrays, calls,
          outcome, fwdOut>>

convVars == <<loops, mm, convOut, convPhase>>

\* the convolution pair is not in use
ConvIdle == loops = None /\ mm = None /\ convOut = None /\ convPhase = "idle"

(***************************************************************************)
(* Bounds of the model.                                                    *)
(***************************************************************************)
MaxBatch == 2       \* batch sizes 1..MaxBatch
MaxChannels == 2    \* in_channels and out_channels 1..MaxChannels
MaxKernel == 2      \* kernel_size 1..MaxKernel
MaxSize == 3        \* input height and width 1..MaxSize
MaxStride == 2      \* stride 1..MaxStride
MaxPadding == 1     \* padding 0..MaxPadding
NumSeeds == 2       \* tensors are drawn from NumSeeds families of values

(***************************************************************************)
(* Tensor primitives (numpy).                                              *)
(***************************************************************************)
RECURSIVE SumUpTo(_, _)
SumUpTo(s, n) == IF n = 0 THEN 0 ELSE s[n] + SumUpTo(s, n - 1)

\* np.sum of a flat sequence
SumSeq(s) == SumUpTo(s, Len(s))

Sum1(n, f(_)) == SumSeq([i \in 1..n |-> f(i)])

Sum3(n1, n2, n3, f(_, _, _)) ==
    Sum1(n1, LAMBDA a : Sum1(n2, LAMBDA b : Sum1(n3, LAMBDA c : f(a, b, c))))

Tensor4(B, C, H, W, f(_, _, _, _)) ==
    [b \in 1..B |-> [c \in 1..C |-> [h \in 1..H |-> [w \in 1..W |-> f(b, c, h, w)]]]]

Matrix(R, C, f(_, _)) == [r \in 1..R |-> [c \in 1..C |-> f(r, c)]]

\* a @ b for 2-d matrices given as sequences of rows
MatMul(a, b) ==
    Matrix(Len(a), Len(b[1]), LAMBDA r, c : Sum1(Len(b), LAMBDA i : a[r][i] * b[i][c]))

\* a.T
Transpose(a) == Matrix(Len(a[1]), Len(a), LAMBDA r, c : a[c][r])

Shape4(x) == <<Len(x), Len(x[1]), Len(x[1][1]), Len(x[1][1][1])>>

\* the values the model draws tensors from: entry number idx of family seed
Gen(seed, idx) == ((idx * idx * idx * seed + idx * idx + 3 * seed + idx) % 7) - 3

GenTensor4(seed, B, C, H, W) ==
    Tensor4(B, C, H, W, LAMBDA b, c, h, w :
        Gen(seed, (((b - 1) * C + (c - 1)) * H + (h - 1)) * W + w))

(***************************************************************************)
(* Convolution: output size and zero padding, shared by both variants.     *)
(***************************************************************************)
OutSize(padded, kernel_size, stride) == (padded - kernel_size) \div stride + 1

GetPaddedInput(padding, input_) ==
    LET sh == Shape4(input_)
        height == sh[3]
        width == sh[4]
    IN Tensor4(sh[1], sh[2], height + 2 * padding, width + 2 * padding,
               LAMBDA b, c, i, j :
                   IF /\ i > padding /\ i <= padding + height
                      /\ j > padding /\ j <= padding + width
                   THEN input_[b][c][i - padding][j - padding]
                   ELSE 0)

\* input_gradient[:, :, padding:padding+height, padding:padding+width]
CropPadding(padding, height, width, g) ==
    Tensor4(Len(g), Len(g[1]), height, width,
            LAMBDA b, c, i, j : g[b][c][i + padding][j + padding])

(***************************************************************************)
(* Conv2dWithLoops: the direct sliding-window convolution.                 *)
(* A layer object is a record; h and w below are the code's h+1 and w+1.   *)
(***************************************************************************)
Conv2dWithLoopsForwardOutput(self, input_) ==
    LET sh == Shape4(input_)
        padded_input == GetPaddedInput(self.padding, input_)
        out_height == OutSize(sh[3] + 2 * self.padding, self.kernel_size, self.stride)
        out_width == OutSize(sh[4] + 2 * self.padding, self.kernel_size, self.stride)
    IN Tensor4(sh[1], self.out_channels, out_height, out_width,
               LAMBDA b, oci, h, w :
                   Sum3(sh[2], self.kernel_size, self.kernel_size,
                        LAMBDA c, kh, kw :
                            self.weights[oci][c][kh][kw]
                            * padded_input[b][c][(h - 1) * self.stride + kh]
                                                [(w - 1) * self.stride + kw])
                   + (IF self.bias # None THEN self.bias[oci] ELSE 0))

Conv2dWithLoopsForward(self, input_) ==
    [self |-> [self EXCEPT !.input_ = input_],
     ret |-> Conv2dWithLoopsForwardOutput(self, input_)]

\* The loop nest adds, at every visited (bi, oci, h, w), a term to each cell of
\* the window [h_start, h_end) x [w_start, w_end): a cell's final value is the
\* sum of the terms of the iterations whose window covers it.
Conv2dWithLoopsInputGradient(self, output_gradient) ==
    LET og == Shape4(output_gradient)
        sh == Shape4(self.input_)
        k == self.kernel_size
    IN Tensor4(sh[1], sh[2], sh[3] + 2 * self.padding, sh[4] + 2 * self.padding,
               LAMBDA bi, c, i, j :
                   Sum3(og[2], og[3], og[4],
                        LAMBDA oci, h, w :
                            LET h_start == (h - 1) * self.stride
                                w_start == (w - 1) * self.stride
                            IN IF /\ i > h_start /\ i <= h_start + k
                                  /\ j > w_start /\ j <= w_start + k
                               THEN self.weights[oci][c][i - h_start][j - w_start]
                                    * output_gradient[bi][oci][h][w]
                               ELSE 0))

\* a plausible slip: the loop adds to the gradient of the previous call
Conv2dWithLoopsWeightsGradientAccumulated(self, output_gradient) ==
    LET og == Shape4(output_gradient)
        padded_input == GetPaddedInput(self.padding, self.input_)
        k == self.kernel_size
    IN Tensor4(self.out_channels, self.in_channels, k, k,
               LAMBDA oci, c, kh, kw :
                   (IF self.weights_gradient = None THEN 0
                    ELSE self.weights_gradient[oci][c][kh][kw])
                   + Sum3(og[1], og[3], og[4],
                          LAMBDA bi, h, w :
                              padded_input[bi][c][(h - 1) * self.stride + kh]
                                                 [(w - 1) * self.stride + kw]
                              * output_gradient[bi][oci][h][w]))

\* self.weights_gradient after the loops of Conv2dWithLoops.backward
Conv2dWithLoopsWeightsGradient(self, output_gradient) ==
    LET og == Shape4(output_gradient)
        padded_input == GetPaddedInput(self.padding, self.input_)
        k == self.kernel_size
    IN Tensor4(self.out_channels, self.in_channels, k, k,
               LAMBDA oci, c, kh, kw :
                   Sum3(og[1], og[3], og[4],
                        LAMBDA bi, h, w :
                            padded_input[bi][c][(h - 1) * self.stride + kh]
                                               [(w - 1) * self.stride + kw]
                            * output_gradient[bi][oci][h][w]))

Conv2dWithLoopsBiasGradient(self, output_gradient) ==
    LET og == Shape4(output_gradient)
    IN [oci \in 1..Len(self.bias) |->
           Sum3(og[1], og[3], og[4],
                LAMBDA bi, h, w : output_gradient[bi][oci][h][w])]

Conv2dWithLoopsBackward(self, output_gradient) ==
    LET sh == Shape4(self.input_)
        input_gradient == Conv2dWithLoopsInputGradient(self, output_gradient)
    IN [self |-> [self EXCEPT
                     !.weights_gradient =
                         Conv2dWithLoopsWeightsGradient(self, output_gradient),
                     !.bias_gradient =
                         IF self.bias # None
                         THEN Conv2dWithLoopsBiasGradient(self, output_gradient)
                         ELSE @],
        ret |-> CropPadding(self.padding, sh[3], sh[4], input_gradient)]

(***************************************************************************)
(* Conv2d: convolution as one matrix multiplication (im2col).              *)
(***************************************************************************)
\* position of element [c][kh][kw] in a (C, k, k) block flattened by reshape
FlatIndex(k, c, kh, kw) == ((c - 1) * k + (kh - 1)) * k + kw

\* _convert_bias: bias.reshape(-1, 1)
ConvertBias(bias) == [oc \in 1..Len(bias) |-> <<bias[oc]>>]

\* _convert_weights: one flattened filter per row
ConvertWeights(weights) ==
    LET C == Len(weights[1])
        k == Len(weights[1][1])
    IN Matrix(Len(weights), C * k * k,
              LAMBDA oc, r : weights[oc][(r - 1) \div (k * k) + 1]
                                    [(((r - 1) \div k) % k) + 1]
                                    [((r - 1) % k) + 1])

\* a plausible slip: the columns of one image enumerated column by column
ColumnIndexColumnMajor(output_height, output_width, b, r, c) ==
    ((b - 1) * output_width + (c - 1)) * output_height + r

\* The column appended for image b at output position (r, c): image_lines is
\* filled image by image, row by row, column by column.
ColumnIndex(output_height, output_width, b, r, c) ==
    ((b - 1) * output_height + (r - 1)) * output_width + c

ConvertInput(self, padded_input) ==
    LET sh == Shape4(padded_input)
        k == self.kernel_size
        output_height == OutSize(sh[3], k, self.stride)
        output_width == OutSize(sh[4], k, self.stride)
        per_image == output_height * output_width
    IN Matrix(sh[2] * k * k, sh[1] * per_image,
              LAMBDA row, col :
                  LET b == (col - 1) \div per_image + 1
                      r == ((col - 1) % per_image) \div output_width + 1
                      c == ((col - 1) % output_width) + 1
                      ci == (row - 1) \div (k * k) + 1
                      kh == (((row - 1) \div k) % k) + 1
                      kw == ((row - 1) % k) + 1
                  IN padded_input[b][ci][(r - 1) * self.stride + kh]
                                        [(c - 1) * self.stride + kw])

\* _restore_input_gradient: every column is added back into its window
RestoreInputGradient(self, converted_input, padded_input_shape) ==
    LET k == self.kernel_size
        output_height == OutSize(padded_input_shape[3], k, self.stride)
        output_width == OutSize(padded_input_shape[4], k, self.stride)
    IN Tensor4(padded_input_shape[1], padded_input_shape[2],
               padded_input_shape[3], padded_input_shape[4],
               LAMBDA b_i, ci, i, j :
                   Sum1(output_height, LAMBDA r : Sum1(output_width, LAMBDA c :
                       LET r_start == (r - 1) * self.stride
                           c_start == (c - 1) * self.stride
                           image_line_index ==
                               ColumnIndex(output_height, output_width, b_i, r, c)
                       IN IF /\ i > r_start /\ i <= r_start + k
                             /\ j > c_start /\ j <= c_start + k
                          THEN converted_input[FlatIndex(k, ci, i - r_start, j - c_start)]
                                              [image_line_index]
                          ELSE 0)))

\* conv2d_out.reshape(out_channels, batch_size, out_height, out_width)
\*           .transpose(1, 0, 2, 3)
ReshapeOutput(conv2d_out, batch_size, out_height, out_width) ==
    Tensor4(batch_size, Len(conv2d_out), out_height, out_width,
            LAMBDA b, oc, h, w :
                conv2d_out[oc][((b - 1) * out_height + (h - 1)) * out_width + w])

Conv2dForward(self, input_) ==
    LET sh == Shape4(input_)
        padded_input == GetPaddedInput(self.padding, input_)
        out_height == OutSize(sh[3] + 2 * self.padding, self.kernel_size, self.stride)
        out_width == OutSize(sh[4] + 2 * self.padding, self.kernel_size, self.stride)
        converted_weights == ConvertWeights(self.weights)
        converted_input == ConvertInput(self, padded_input)
        product == MatMul(converted_weights, converted_input)
        conv2d_out ==
            IF self.bias # None
            THEN Matrix(Len(product), Len(product[1]),
                        LAMBDA r, c : product[r][c] + ConvertBias(self.bias)[r][1])
            ELSE product
    IN [self |-> [self EXCEPT !.input_ = input_,
                              !.converted_input = converted_input],
        ret |-> ReshapeOutput(conv2d_out, sh[1], out_height, out_width)]

\* output_gradient.transpose(1, 0, 2, 3).reshape(self.out_channels, -1)
ConvertOutputGradient(output_gradient) ==
    LET og == Shape4(output_gradient)
        per_image == og[3] * og[4]
    IN Matrix(og[2], og[1] * per_image,
              LAMBDA oc, col :
                  output_gradient[(col - 1) \div per_image + 1][oc]
                                 [((col - 1) % per_image) \div og[4] + 1]
                                 [((col - 1) % og[4]) + 1])

\* backward_as_matrix_multiplication; only called with a cached converted_input
Conv2dBackwardAsMatrixMultiplication(self, output_gradient) ==
    LET output_gradient_converted == ConvertOutputGradient(output_gradient)
        k == self.kernel_size
        flat == MatMul(output_gradient_converted, Transpose(self.converted_input))
        weights_gradient ==
            Tensor4(self.out_channels, self.in_channels, k, k,
                    LAMBDA oc, c, kh, kw : flat[oc][FlatIndex(k, c, kh, kw)])
        bias_gradient ==
            [oc \in 1..self.out_channels |-> SumSeq(output_gradient_converted[oc])]
        converted_weights == ConvertWeights(self.weights)
        input_gradient == MatMul(Transpose(converted_weights), output_gradient_converted)
        sh == Shape4(self.input_)
        padded_input_shape ==
            <<sh[1], sh[2], sh[3] + 2 * self.padding, sh[4] + 2 * self.padding>>
        restored == RestoreInputGradient(self, input_gradient, padded_input_shape)
    IN [self |-> [self EXCEPT
                     !.weights_gradient = weights_gradient,
                     !.bias_gradient = IF self.bias # None THEN bias_gradient ELSE @],
        ret |-> CropPadding(self.padding, sh[3], sh[4], restored)]

\* a plausible slip: the unfolded input is kept after backward
Conv2dBackwardKeepingInput(self, output_gradient) ==
    Conv2dBackwardAsMatrixMultiplication(self, output_gradient)

\* Conv2d.backward: the unfolded input is dropped afterwards
Conv2dBackward(self, output_gradient) ==
    LET r == Conv2dBackwardAsMatrixMultiplication(self, output_gradient)
    IN [self |-> [r.self EXCEPT !.converted_input = None], ret |-> r.ret]

\* Conv2dWithLoops.__init__ and Conv2d.__init__ (the id is left to the caller)
NewConv(weights, bias, stride, padding) ==
    [weights |-> weights, bias |-> bias, stride |-> stride, padding |-> padding,
     out_channels |-> Len(weights), in_channels |-> Len(weights[1]),
     kernel_size |-> Len(weights[1][1]),
     weights_gradient |-> None, bias_gradient |-> None,
     input_ |-> None, converted_input |-> None]

(***************************************************************************)
(* Modules as objects.  TrainableLayer.__init__ takes the next value of    *)
(* the process-wide counter id_iter as the layer's id.                     *)
(***************************************************************************)
worldVars == <<id_iter, issued, objs, arrays, calls, outcome, fwdOut>>

\* no module has been constructed: itertools.count() starts at 0
WorldInit ==
    /\ id_iter = 0 /\ issued = <<>> /\ objs = <<>> /\ arrays = <<>>
    /\ calls = <<>> /\ outcome = None /\ fwdOut = <<>>

WorldIdle == WorldInit

TrainableKinds ==
    {"FullyConnectedLayer", "Conv2dWithLoops", "Conv2d", "BatchNormalization2d"}

\* str(n) of a non-negative integer, as the sequence of its decimal digits
RECURSIVE Str(_)
Str(n) == IF n < 10 THEN <<n>> ELSE Str(n \div 10) \o <<n % 10>>

\* a plausible slip: the counter is read but not advanced
NextIdStuck(counter) == [value |-> counter, counter |-> counter]

\* next(TrainableLayer.id_iter): the value returned and the counter afterwards
NextId(counter) == [value |-> counter, counter |-> counter + 1]

\* get_W_and_b_ids: f"dW{self.id}", f"db{self.id}"
GetWAndBIds(self) == <<<<"d", "W">> \o Str(self.id), <<"d", "b">> \o Str(self.id)>>

\* the ids of BatchNormalization2d: f'g{self.id}', f'b{self.id}'
GetGammaAndBetaIds(self) == <<<<"g">> \o Str(self.id), <<"b">> \o Str(self.id)>>

\* the identity strings a trainable layer hands to an optimizer
ParameterIds(self) ==
    IF self.kind = "BatchNormalization2d"
    THEN GetGammaAndBetaIds(self)
    ELSE GetWAndBIds(self)

\* a trainable layer right after TrainableLayer.__init__
NewTrainableLayer(kind, id) == [kind |-> kind, id |-> id, training |-> TRUE]

(***************************************************************************)
(* Construction of trainable layers in one run.                            *)
(***************************************************************************)
MaxIds == 11        \* at most MaxIds layers are constructed in a run
MaxLive == 3        \* at most MaxLive of them are kept alive

\* a trainable layer is constructed; the caller keeps it or lets it go
Construct(kind, keep) ==
    /\ id_iter < MaxIds
    /\ keep => Len(objs) < MaxLive
    /\ LET n == NextId(id_iter)
       IN /\ id_iter' = n.counter
          /\ issued' = Append(issued, n.value)
          /\ objs' = IF keep THEN Append(objs, NewTrainableLayer(kind, n.value))
                     ELSE objs
          /\ UNCHANGED <<arrays, calls, outcome, fwdOut>>
    /\ UNCHANGED convVars

IdsNext == \E kind \in TrainableKinds, keep \in BOOLEAN : Construct(kind, keep)

IdsInit == WorldInit /\ ConvIdle

SpecIds == IdsInit /\ [][IdsNext]_vars

AllParameterIds ==
    {<<h, r>> \in (1..Len(objs)) \X (1..2) : TRUE}

IdsIncreasing ==
    /\ \A i, j \in 1..Len(issued) : i < j => issued[i] < issued[j]
    /\ \A h \in 1..Len(objs) :
           \E i \in 1..Len(issued) : issued[i] = objs[h].id

ParameterIdsDistinct ==
    \A p, q \in AllParameterIds :
        p # q => ParameterIds(objs[p[1]])[p[2]] # ParameterIds(objs[q[1]])[q[2]]

\* C7: every constructed layer gets an id greater than all ids handed out
\* before, a layer's id never changes once it is constructed, and the identity
\* strings dW<id>, db<id>, g<id>, b<id> of the live layers are pairwise
\* distinct across layers and across roles.
IdsIncreaseAndParameterIdsDistinct ==
    /\ [](IdsIncreasing /\ ParameterIdsDistinct)
    /\ [][\A h \in 1..Len(objs) : objs'[h].id = objs[h].id]_vars

\* layers of different kinds are alive, one with a one-digit and one with a
\* two-digit id that starts with the same digit
IdsIncreaseAndParameterIdsDistinctWitness ==
    /\ Len(objs) = MaxLive
    /\ objs[1].id = 1 /\ objs[1].kind = "BatchNormalization2d"
    /\ objs[2].kind = "Conv2d"
    /\ objs[3].id >= 10 /\ Str(objs[3].id)[1] = 1
    /\ objs[3].kind = "FullyConnectedLayer"

(***************************************************************************)
(* The two convolutions side by side, on the same weights, bias, input and *)
(* output gradient.                                                        *)
(***************************************************************************)

ConvConfigs ==
    {cfg \in [batch : 1..MaxBatch, in_channels : 1..MaxChannels,
              out_channels : 1..MaxChannels, kernel_size : 1..MaxKernel,
              height : 1..MaxSize, width : 1..MaxSize,
              stride : 1..MaxStride, padding : 0..MaxPadding,
              has_bias : BOOLEAN] :
        \* the kernel fits in the padded input
        /\ cfg.height + 2 * cfg.padding >= cfg.kernel_size
        /\ cfg.width + 2 * cfg.padding >= cfg.kernel_size}

ConvInit ==
    /\ WorldIdle
    /\ \E cfg \in ConvConfigs :
        LET weights == GenTensor4(NumSeeds, cfg.out_channels, cfg.in_channels,
                                  cfg.kernel_size, cfg.kernel_size)
            bias == IF cfg.has_bias
                    THEN [oc \in 1..cfg.out_channels |-> Gen(NumSeeds + 1, oc)]
                    ELSE None
        IN /\ loops = NewConv(weights, bias, cfg.stride, cfg.padding)
           /\ mm = NewConv(weights, bias, cfg.stride, cfg.padding)
           /\ convOut = [forward_loops |-> None, forward_mm |-> None,
                         backward_loops |-> None, backward_mm |-> None,
                         shape |-> <<cfg.batch, cfg.in_channels, cfg.height, cfg.width>>]
           /\ convPhase = "constructed"

\* both layers run forward on the same input
ConvForward ==
    /\ convPhase = "constructed"
    /\ \E seed \in 1..NumSeeds :
        LET sh == convOut.shape
            input_ == GenTensor4(seed, sh[1], sh[2], sh[3], sh[4])
            l == Conv2dWithLoopsForward(loops, input_)
            m == Conv2dForward(mm, input_)
        IN /\ loops' = l.self
           /\ mm' = m.self
           /\ convOut' = [convOut EXCEPT !.forward_loops = l.ret, !.forward_mm = m.ret,
                                         !.backward_loops = None, !.backward_mm = None]
    /\ convPhase' = "forward"
    /\ UNCHANGED worldVars

\* both layers run backward on the same output gradient
ConvBackward ==
    /\ convPhase = "forward"
    /\ \E seed \in 1..NumSeeds :
        LET sh == Shape4(convOut.forward_loops)
            output_gradient == GenTensor4(seed + 2, sh[1], sh[2], sh[3], sh[4])
            l == Conv2dWithLoopsBackward(loops, output_gradient)
            m == Conv2dBackward(mm, output_gradient)
        IN /\ loops' = l.self
           /\ mm' = m.self
           /\ convOut' = [convOut EXCEPT !.backward_loops = l.ret, !.backward_mm = m.ret]
    /\ convPhase' = "backward"
    /\ UNCHANGED worldVars

ConvNext == ConvForward \/ ConvBackward

SpecConv == ConvInit /\ [][ConvNext]_vars

\* C1: Conv2dWithLoops and Conv2d, holding the same weights and bias, give the
\* same forward output on the same input and, for the same output gradient, the
\* same weight gradient, bias gradient and input gradient (overlapping windows,
\* stride < kernel_size, included).
ConvVariantsAgree ==
    /\ convOut.forward_loops = convOut.forward_mm
    /\ convOut.backward_loops = convOut.backward_mm
    /\ loops.weights_gradient = mm.weights_gradient
    /\ loops.bias_gradient = mm.bias_gradient
    /\ loops.weights = mm.weights /\ loops.bias = mm.bias

\* a backward pass has run with overlapping windows, padding, a bias, several
\* channels and a batch, and produced gradients that are not all zero
ConvVariantsAgreeWitness ==
    /\ convPhase = "backward"
    /\ loops.stride < loops.kernel_size
    /\ loops.padding > 0
    /\ loops.bias # None
    /\ loops.in_channels > 1 /\ loops.out_channels > 1
    /\ Len(loops.input_) > 1
    /\ Len(loops.input_[1][1]) # Len(loops.input_[1][1][1])
    /\ \E b \in 1..Len(convOut.backward_mm) :
           \E i \in 1..Len(convOut.backward_mm[1][1]) :
               convOut.backward_mm[b][1][i][1] # 0
    /\ \E oc \in 1..2 : mm.weights_gradient[oc][1][1][1] # 0

(***************************************************************************)
(* Layers on 2-d tensors (batch, features), given as sequences of rows.    *)
(* A call works on a machine state st = [objs, arrays, calls, fwdOut, ret, *)
(* err]: err names the Python exception raised ("" when none), ret is the  *)
(* value returned.  An attribute that was never assigned is None; reading  *)
(* it raises AttributeError.                                               *)
(***************************************************************************)
NoError == ""

Rows(a) == Len(a)

Cols(a) == Len(a[1])

Shape2(a) == <<Rows(a), Cols(a)>>

Max(a, b) == IF a >= b THEN a ELSE b

\* numpy broadcasting of two 2-d shapes: equal, or one of them 1, per axis
CanBroadcast(a, b) ==
    /\ Rows(a) = Rows(b) \/ Rows(a) = 1 \/ Rows(b) = 1
    /\ Cols(a) = Cols(b) \/ Cols(a) = 1 \/ Cols(b) = 1

\* the element of a that numpy pairs with position (r, c) of the result
BroadcastAt(a, r, c) ==
    a[IF Rows(a) = 1 THEN 1 ELSE r][IF Cols(a) = 1 THEN 1 ELSE c]

\* a * b, elementwise with broadcasting
Multiply(a, b) ==
    Matrix(Max(Rows(a), Rows(b)), Max(Cols(a), Cols(b)),
           LAMBDA r, c : BroadcastAt(a, r, c) * BroadcastAt(b, r, c))

\* a.reshape(shape): the elements in row-major order
Reshape(a, shape) ==
    Matrix(shape[1], shape[2],
           LAMBDA r, c :
               LET n == (r - 1) * shape[2] + (c - 1)
               IN a[n \div Cols(a) + 1][(n % Cols(a)) + 1])

Raise(st, e) == [st EXCEPT !.err = e, !.ret = None]

Return(st, value) == [st EXCEPT !.ret = value]

\* FullyConnectedLayer.forward
FullyConnectedForward(st, h, input_) ==
    LET st1 == [st EXCEPT !.objs[h].input_ = input_]
        weights == st.arrays[st.objs[h].weights]
        bias == st.arrays[st.objs[h].bias]
    IN IF Cols(input_) # Rows(weights)
       THEN Raise(st1, "ValueError")
       ELSE LET product == MatMul(input_, weights)
                output == Matrix(Rows(product), Cols(product),
                                 LAMBDA r, c : product[r][c] + bias[1][c])
            IN Return([st1 EXCEPT !.objs[h].output = output], output)

\* FullyConnectedLayer.backward
FullyConnectedBackward(st, h, output_gradient) ==
    LET self == st.objs[h]
        weights == st.arrays[self.weights]
    IN IF Cols(output_gradient) # Cols(weights)
       THEN Raise(st, "ValueError")          \* np.dot(output_gradient, weights.T)
       ELSE IF self.input_ = None
       THEN Raise(st, "AttributeError")      \* self.input_ was never assigned
       ELSE IF Rows(self.input_) # Rows(output_gradient)
       THEN Raise(st, "ValueError")          \* np.dot(input_.T, output_gradient)
       ELSE Return([st EXCEPT
                       !.objs[h].weights_gradient =
                           MatMul(Transpose(self.input_), output_gradient),
                       !.objs[h].bias_gradient =
                           <<[c \in 1..Cols(output_gradient) |->
                               Sum1(Rows(output_gradient),
                                    LAMBDA r : output_gradient[r][c])]>>],
                   MatMul(output_gradient, Transpose(weights)))

\* ReLULayer.forward
ReLUForward(st, h, input_) ==
    Return([st EXCEPT !.objs[h].input_ = input_],
           Matrix(Rows(input_), Cols(input_), LAMBDA r, c : Max(0, input_[r][c])))

\* ReLULayer.backward: output_gradient * (self.input_ > 0)
ReLUBackward(st, h, output_gradient) ==
    LET input_ == st.objs[h].input_
    IN IF input_ = None
       THEN Raise(st, "AttributeError")
       ELSE IF ~CanBroadcast(output_gradient, input_)
       THEN Raise(st, "ValueError")
       ELSE Return(st, Multiply(output_gradient,
                                Matrix(Rows(input_), Cols(input_),
                                       LAMBDA r, c : IF input_[r][c] > 0 THEN 1 ELSE 0)))

\* LinearActivation.forward
LinearForward(st, h, input_) == Return(st, input_)

\* LinearActivation.backward
LinearBackward(st, h, output_gradient) == Return(st, output_gradient)

\* Flatten.forward: input_.reshape(batch_size, -1)
FlattenForward(st, h, input_) ==
    Return([st EXCEPT !.objs[h].input_shape = Shape2(input_)],
           Reshape(input_, <<Rows(input_), Cols(input_)>>))

\* Flatten.backward: output_gradient.reshape(self.input_shape)
FlattenBackward(st, h, output_gradient) ==
    LET input_shape == st.objs[h].input_shape
    IN IF input_shape = None
       THEN Raise(st, "AttributeError")
       ELSE IF input_shape[1] * input_shape[2]
               # Rows(output_gradient) * Cols(output_gradient)
       THEN Raise(st, "ValueError")
       ELSE Return(st, Reshape(output_gradient, input_shape))

(***************************************************************************)
(* Constructors.                                                           *)
(***************************************************************************)
\* Module: training is a class attribute, True until train() or eval() sets it
NewModule(kind) ==
    [kind |-> kind, training |-> TRUE, input_ |-> None, input_shape |-> None]

\* the values np.random.randn gave the parameters of the layer with this id
InitialWeights(id, n_input_neurons, n_output_neurons) ==
    Matrix(n_input_neurons, n_output_neurons, LAMBDA r, c : id + r + c)

InitialBias(id, n_output_neurons) ==
    Matrix(1, n_output_neurons, LAMBDA r, c : id + c)

\* FullyConnectedLayer.__init__; weights and bias name arrays of the store
NewFullyConnectedLayer(id, weights_ref, bias_ref) ==
    [kind |-> "FullyConnectedLayer", id |-> id, training |-> TRUE,
     weights |-> weights_ref, bias |-> bias_ref,
     weights_gradient |-> None, bias_gradient |-> None,
     input_ |-> None, output |-> None]

\* Module.get_trainable_layers, TrainableLayer.get_trainable_layers and
\* Sequential.get_trainable_layers
GetTrainableLayers(os, h) ==
    IF os[h].kind \in TrainableKinds THEN <<h>>
    ELSE IF os[h].kind = "Sequential" THEN os[h].trainable_layers
    ELSE <<>>

\* a plausible slip: only the layers that are trainable themselves are
\* collected, the lists of contained containers are not
CollectDirectLayersOnly(os, nn_modules) ==
    SelectSeq(nn_modules, LAMBDA h : os[h].kind \in TrainableKinds)

\* the loop of Sequential.__init__: trainable_layers.extend(...) per module
RECURSIVE CollectTrainableLayers(_, _)
CollectTrainableLayers(os, nn_modules) ==
    IF nn_modules = <<>> THEN <<>>
    ELSE GetTrainableLayers(os, Head(nn_modules))
         \o CollectTrainableLayers(os, Tail(nn_modules))

\* Sequential.__init__
NewSequential(os, nn_modules) ==
    [kind |-> "Sequential", training |-> TRUE, nn_modules |-> nn_modules,
     trainable_layers |-> CollectTrainableLayers(os, nn_modules)]

(***************************************************************************)
(* Module.train and Module.eval.                                           *)
(***************************************************************************)
RecursionLimit == 4     \* nesting depth of calls after which Python gives up

\* a plausible slip: the flag is set on the object itself only
SetTrainingSelfOnly(st, h, flag, depth) ==
    [st EXCEPT !.objs[h].training = flag]

\* train() (flag TRUE) and eval() (flag FALSE) on object h at call depth depth
RECURSIVE SetTraining(_, _, _, _), SetTrainingFrom(_, _, _, _, _, _)
SetTraining(st, h, flag, depth) ==
    IF depth > RecursionLimit THEN Raise(st, "RecursionError")
    ELSE LET st1 == [st EXCEPT !.objs[h].training = flag]
         IN SetTrainingFrom(st1, h, GetTrainableLayers(st1.objs, h), 1, flag, depth)

\* the loop over self.get_trainable_layers(), from its i-th element on
SetTrainingFrom(st, h, layers, i, flag, depth) ==
    IF i > Len(layers) \/ st.err # NoError THEN st
    ELSE IF h = layers[i]
    THEN SetTrainingFrom(st, h, layers, i + 1, flag, depth)      \* continue
    ELSE SetTrainingFrom(SetTraining(st, layers[i], flag, depth + 1),
                         h, layers, i + 1, flag, depth)

(***************************************************************************)
(* forward and backward of any module, and of Sequential.                  *)
(***************************************************************************)
RECURSIVE Reverse(_)
Reverse(s) == IF s = <<>> THEN <<>> ELSE Append(Reverse(Tail(s)), Head(s))

\* a plausible slip: backward walks the modules in forward order
BackwardOrderNotReversed(nn_modules) == nn_modules

\* reversed(self.nn_modules)
BackwardOrder(nn_modules) == Reverse(nn_modules)

(***************************************************************************)
(* MaxPool2d.  A padding cell holds NegInf, which stands for -np.inf: it   *)
(* is below every value a tensor of the model holds and equal to itself.   *)
(* h and w below are the code's h+1 and w+1.                               *)
(***************************************************************************)
NegInf == -1000

\* a plausible slip: the padding is zero whatever the flag says
PadValueZero(use_neg_inf_for_padding) == 0

\* the value _get_padded_input fills the padded tensor with
PadValue(use_neg_inf_for_padding) ==
    IF use_neg_inf_for_padding THEN NegInf ELSE 0

\* MaxPool2d._get_padded_input
MaxPool2dGetPaddedInput(self, input_) ==
    LET sh == Shape4(input_)
        height == sh[3]
        width == sh[4]
    IN Tensor4(sh[1], sh[2], height + 2 * self.padding, width + 2 * self.padding,
               LAMBDA b, c, i, j :
                   IF /\ i > self.padding /\ i <= self.padding + height
                      /\ j > self.padding /\ j <= self.padding + width
                   THEN input_[b][c][i - self.padding][j - self.padding]
                   ELSE PadValue(self.use_neg_inf_for_padding))

\* np.max(plane[h_start:h_end, w_start:w_end]) for output position (h, w)
WindowMax(plane, self, h, w) ==
    LET cells == {plane[(h - 1) * self.stride + kh][(w - 1) * self.stride + kw] :
                      kh \in 1..self.kernel_size, kw \in 1..self.kernel_size}
    IN CHOOSE x \in cells : \A y \in cells : x >= y

\* MaxPool2d.forward
MaxPool2dForward(st, h, input_) ==
    LET self == st.objs[h]
        st1 == [st EXCEPT !.objs[h].input_ = input_]
        padded_input == MaxPool2dGetPaddedInput(self, input_)
        sh == Shape4(padded_input)
        out_height == OutSize(sh[3], self.kernel_size, self.stride)
        out_width == OutSize(sh[4], self.kernel_size, self.stride)
    IN IF out_height < 0 \/ out_width < 0
       THEN Raise(st1, "ValueError")             \* np.zeros of a negative size
       ELSE Return(st1, Tensor4(sh[1], sh[2], out_height, out_width,
                                LAMBDA b, c, oh, ow :
                                    WindowMax(padded_input[b][c], self, oh, ow)))

\* a plausible slip: a window's gradient goes to its first maximum only
AddWindowFirstMaximumOnly(gradient, plane, self, h, w, upstream) ==
    LET max_value == WindowMax(plane, self, h, w)
        h_start == (h - 1) * self.stride
        w_start == (w - 1) * self.stride
        inside(i, j) == /\ i > h_start /\ i <= h_start + self.kernel_size
                        /\ j > w_start /\ j <= w_start + self.kernel_size
        first == CHOOSE p \in (1..Len(plane)) \X (1..Len(plane[1])) :
                     /\ inside(p[1], p[2]) /\ plane[p[1]][p[2]] = max_value
                     /\ \A q \in (1..Len(plane)) \X (1..Len(plane[1])) :
                            (inside(q[1], q[2]) /\ plane[q[1]][q[2]] = max_value)
                                => (q[1] > p[1] \/ (q[1] = p[1] /\ q[2] >= p[2]))
    IN Matrix(Len(plane), Len(plane[1]),
              LAMBDA i, j : gradient[i][j]
                            + (IF <<i, j>> = first THEN upstream ELSE 0))

\* one pass of the innermost loop body of MaxPool2d.backward on one plane:
\* input_gradient[window] += mask * output_gradient[bi, oci, h, w]
AddWindow(gradient, plane, self, h, w, upstream) ==
    LET max_value == WindowMax(plane, self, h, w)
        h_start == (h - 1) * self.stride
        w_start == (w - 1) * self.stride
    IN Matrix(Len(plane), Len(plane[1]),
              LAMBDA i, j :
                  gradient[i][j]
                  + (IF /\ i > h_start /\ i <= h_start + self.kernel_size
                        /\ j > w_start /\ j <= w_start + self.kernel_size
                        /\ plane[i][j] = max_value
                     THEN upstream ELSE 0))

\* the loops over h and w of MaxPool2d.backward on one plane, from window
\* number n on (windows are numbered row by row)
RECURSIVE AddWindowsFrom(_, _, _, _, _, _, _)
AddWindowsFrom(gradient, plane, self, out_height, out_width, upstream, n) ==
    IF n > out_height * out_width THEN gradient
    ELSE LET h == (n - 1) \div out_width + 1
             w == ((n - 1) % out_width) + 1
         IN AddWindowsFrom(AddWindow(gradient, plane, self, h, w, upstream[h][w]),
                           plane, self, out_height, out_width, upstream, n + 1)

\* MaxPool2d.backward
MaxPool2dBackward(st, h, output_gradient) ==
    LET self == st.objs[h]
    IN IF self.input_ = None
       THEN Raise(st, "AttributeError")          \* self.input_ was never assigned
       ELSE LET padded_input == MaxPool2dGetPaddedInput(self, self.input_)
                sh == Shape4(self.input_)
                out_height == OutSize(sh[3] + 2 * self.padding, self.kernel_size,
                                      self.stride)
                out_width == OutSize(sh[4] + 2 * self.padding, self.kernel_size,
                                     self.stride)
                og == Shape4(output_gradient)
            IN IF /\ out_height > 0 /\ out_width > 0
                  /\ \/ og[1] < sh[1] \/ og[2] < sh[2]
                     \/ og[3] < out_height \/ og[4] < out_width
               THEN Raise(st, "IndexError")      \* output_gradient[bi, oci, h, w]
               ELSE Return(st, CropPadding(self.padding, sh[3], sh[4],
                        [b \in 1..sh[1] |-> [c \in 1..sh[2] |->
                            AddWindowsFrom(
                                Matrix(sh[3] + 2 * self.padding,
                                       sh[4] + 2 * self.padding, LAMBDA i, j : 0),
                                padded_input[b][c], self, out_height, out_width,
                                output_gradient[b][c], 1)]]))

\* MaxPool2d.__init__
NewMaxPool2d(kernel_size, stride, padding, use_neg_inf_for_padding) ==
    [kind |-> "MaxPool2d", training |-> TRUE, kernel_size |-> kernel_size,
     stride |-> stride, padding |-> padding,
     use_neg_inf_for_padding |-> use_neg_inf_for_padding, input_ |-> None]

(***************************************************************************)
(* Floating-point numbers off the integers are fractions num/den in lowest *)
(* terms with den >= 0.  A zero denominator gives the IEEE values: 1/0 is  *)
(* inf, -1/0 is -inf and 0/0 is nan, and the operations below propagate    *)
(* them as numpy does (a division by zero is a warning, not an exception). *)
(***************************************************************************)
RECURSIVE GCD(_, _)
GCD(a, b) == IF b = 0 THEN a ELSE GCD(b, a % b)

Abs(a) == IF a < 0 THEN -a ELSE a

Sign(a) == IF a < 0 THEN -1 ELSE IF a > 0 THEN 1 ELSE 0

Fraction(num, den) ==
    IF den = 0 THEN [num |-> Sign(num), den |-> 0]
    ELSE LET g == GCD(Abs(num), Abs(den))
         IN [num |-> Sign(den) * (Abs(num) \div g) * Sign(num),
             den |-> Abs(den) \div g]

Nan == [num |-> 0, den |-> 0]

IsFinite(a) == a.den # 0

FAdd(a, b) == Fraction(a.num * b.den + b.num * a.den, a.den * b.den)

FMul(a, b) == Fraction(a.num * b.num, a.den * b.den)

FDiv(a, b) == Fraction(a.num * b.den, a.den * b.num)

FInt(n) == [num |-> n, den |-> 1]

\* 1 - a
OneMinus(a) == FAdd(FInt(1), FMul(FInt(-1), a))

(***************************************************************************)
(* BatchNormalization2d.  A tensor of shape (1, n_channels, 1, 1) is the   *)
(* sequence of its n_channels entries.  Values that involve a square root  *)
(* are kept as the expression that computes them, a record whose fn field  *)
(* gives the numpy expression and whose other fields are its operands.     *)
(* forwards counts the forward calls made on a layer.                      *)
(***************************************************************************)
\* np.sum(x, axis=(0, 2, 3)) at channel c
ChannelSum(x, c) ==
    Sum3(Len(x), Len(x[1][1]), Len(x[1][1][1]), LAMBDA b, i, j : x[b][c][i][j])

ChannelSumOfSquares(x, c) ==
    Sum3(Len(x), Len(x[1][1]), Len(x[1][1][1]),
         LAMBDA b, i, j : x[b][c][i][j] * x[b][c][i][j])

\* the elements per channel of x
ChannelCount(x) == Len(x) * Len(x[1][1]) * Len(x[1][1][1])

\* input_.mean(axis=(0, 2, 3), keepdims=True)
BatchMean(x) ==
    [c \in 1..Len(x[1]) |-> Fraction(ChannelSum(x, c), ChannelCount(x))]

\* input_.var(axis=(0, 2, 3), keepdims=True, ddof=0)
BatchVar(x) ==
    [c \in 1..Len(x[1]) |->
        Fraction(ChannelCount(x) * ChannelSumOfSquares(x, c)
                 - ChannelSum(x, c) * ChannelSum(x, c),
                 ChannelCount(x) * ChannelCount(x))]

\* the entry of a (1, C, 1, 1) tensor that numpy pairs with channel c
AtChannel(a, c) == a[IF Len(a) = 1 THEN 1 ELSE c]

\* two (1, C, 1, 1) tensors can be broadcast together
ChannelsBroadcast(a, b) == Len(a) = Len(b) \/ Len(a) = 1 \/ Len(b) = 1

\* a plausible slip: the layer takes every forward for a training forward
InTrainingModeAlways(self) == TRUE

\* if self.training
InTrainingMode(self) == self.training

\* BatchNormalization2d.update_running_mean_and_var on the layer record self
UpdateRunningMeanAndVar(self) ==
    LET C == Max(Len(self.mean), Len(self.running_mean))
        sh == Shape4(self.input_)
        n == Fraction(sh[1] * sh[2] * sh[3] * sh[4], self.n_channels)
        nMinusOne == FAdd(n, FInt(-1))
    IN [self EXCEPT
           !.running_mean =
               [c \in 1..C |->
                   FAdd(FMul(self.momentum, AtChannel(self.mean, c)),
                        FMul(OneMinus(self.momentum),
                             AtChannel(self.running_mean, c)))],
           !.running_var =
               [c \in 1..C |->
                   FAdd(FDiv(FMul(FMul(self.momentum, AtChannel(self.var, c)), n),
                             nMinusOne),
                        FMul(OneMinus(self.momentum),
                             AtChannel(self.running_var, c)))]]

\* (input_ - self.mean) / std
NormInput(self) ==
    [fn |-> "(input_ - mean) / np.sqrt(var + eps)", input_ |-> self.input_,
     mean |-> self.mean, var |-> self.var, eps |-> self.eps]

\* BatchNormalization2d.forward
BatchNormForward(st, h, input_) ==
    LET self == st.objs[h]
        seen == [self EXCEPT !.input_ = input_, !.forwards = @ + 1]
        measured == [seen EXCEPT !.mean = BatchMean(input_), !.var = BatchVar(input_)]
        ready == IF InTrainingMode(self)
                 THEN IF ChannelsBroadcast(measured.mean, measured.running_mean)
                      THEN UpdateRunningMeanAndVar(measured)
                      ELSE measured
                 ELSE [seen EXCEPT !.mean = self.running_mean,
                                   !.var = self.running_var]
        st1 == [st EXCEPT !.objs[h] = ready]
    IN IF InTrainingMode(self)
          /\ ~ChannelsBroadcast(measured.mean, measured.running_mean)
       THEN Raise(st1, "ValueError")             \* momentum * mean + ... running_mean
       ELSE IF Len(ready.var) # self.n_channels
       THEN Raise(st1, "ValueError")             \* .reshape(1, self.n_channels, 1, 1)
       ELSE IF Len(input_[1]) # self.n_channels /\ Len(input_[1]) # 1
               /\ self.n_channels # 1
       THEN Raise(st1, "ValueError")             \* input_ - self.mean
       ELSE LET done == [ready EXCEPT !.norm_input = NormInput(ready)]
            IN Return([st EXCEPT !.objs[h] = done],
                      [fn |-> "gamma * norm_input + beta", gamma |-> self.gamma,
                       beta |-> self.beta, norm_input |-> done.norm_input])

\* np.sum(output_gradient, axis=(0, 2, 3), keepdims=True)
SumOverChannels(output_gradient) ==
    [c \in 1..Len(output_gradient[1]) |-> ChannelSum(output_gradient, c)]

\* BatchNormalization2d.backward
BatchNormBackward(st, h, output_gradient) ==
    LET self == st.objs[h]
        st1 == [st EXCEPT !.objs[h].beta_gradient = SumOverChannels(output_gradient)]
    IN IF self.norm_input = None
       THEN Raise(st1, "AttributeError")         \* self.norm_input was never assigned
       ELSE IF Shape4(output_gradient) # Shape4(self.input_)
       THEN Raise(st1, "ValueError")             \* output_gradient * self.norm_input
       ELSE Return([st1 EXCEPT
                       !.objs[h].gamma_gradient =
                           [fn |-> "np.sum(output_gradient * norm_input, axis=(0, 2, 3))",
                            output_gradient |-> output_gradient,
                            norm_input |-> self.norm_input]],
                   [fn |-> "input_gradient", output_gradient |-> output_gradient,
                    gamma |-> self.gamma, input_ |-> self.input_,
                    mean |-> self.mean, var |-> self.var, eps |-> self.eps])

\* BatchNormalization2d.__init__
NewBatchNormalization2d(id, n_channels, momentum, eps) ==
    [kind |-> "BatchNormalization2d", id |-> id, training |-> TRUE,
     n_channels |-> n_channels,
     gamma |-> [c \in 1..n_channels |-> FInt(1)],
     beta |-> [c \in 1..n_channels |-> FInt(0)],
     running_mean |-> [c \in 1..n_channels |-> FInt(0)],
     running_var |-> [c \in 1..n_channels |-> FInt(1)],
     eps |-> eps, gamma_gradient |-> None, beta_gradient |-> None,
     momentum |-> momentum, num_batches_trained_on |-> 0,
     input_ |-> None, mean |-> None, var |-> None, norm_input |-> None,
     forwards |-> 0]

(***************************************************************************)
(* The two convolution layers as objects of the heap.                      *)
(***************************************************************************)
\* Conv2dWithLoops.__init__ / Conv2d.__init__ with the id taken by
\* TrainableLayer.__init__
NewConvLayer(kind, id, weights, bias, stride, padding) ==
    [kind |-> kind, id |-> id, training |-> TRUE,
     weights |-> weights, bias |-> bias, stride |-> stride, padding |-> padding,
     out_channels |-> Len(weights), in_channels |-> Len(weights[1]),
     kernel_size |-> Len(weights[1][1]),
     weights_gradient |-> None, bias_gradient |-> None,
     input_ |-> None, converted_input |-> None]

\* Conv2dWithLoops.forward on object h
Conv2dWithLoopsForwardOn(st, h, input_) ==
    LET r == Conv2dWithLoopsForward(st.objs[h], input_)
    IN Return([st EXCEPT !.objs[h] = r.self], r.ret)

\* Conv2dWithLoops.backward on object h
Conv2dWithLoopsBackwardOn(st, h, output_gradient) ==
    IF st.objs[h].input_ = None
    THEN Raise(st, "AttributeError")             \* self.input_ was never assigned
    ELSE LET r == Conv2dWithLoopsBackward(st.objs[h], output_gradient)
         IN Return([st EXCEPT !.objs[h] = r.self], r.ret)

\* Conv2d.forward on object h
Conv2dForwardOn(st, h, input_) ==
    LET r == Conv2dForward(st.objs[h], input_)
    IN Return([st EXCEPT !.objs[h] = r.self], r.ret)

\* Conv2d.backward on object h.  With no unfolded input cached,
\* self.converted_input.T raises before anything is assigned.
Conv2dBackwardOn(st, h, output_gradient) ==
    IF st.objs[h].converted_input = None
    THEN Raise(st, "AttributeError")
    ELSE LET r == Conv2dBackward(st.objs[h], output_gradient)
         IN Return([st EXCEPT !.objs[h] = r.self], r.ret)

RECURSIVE Forward(_, _, _), Backward(_, _, _), Call(_, _, _, _, _),
          SequentialFrom(_, _, _, _, _, _)

\* callee.forward(arg) or callee.backward(arg)
Dispatch(st, callee, op, arg) ==
    IF op = "forward" THEN Forward(st, callee, arg) ELSE Backward(st, callee, arg)

\* the call numbered frame, made from state st, has ended in state r: it is
\* entered in the log, and the output of a forward that returned is kept
Logged(st, frame, caller, callee, op, arg, r) ==
    [r EXCEPT !.frame = st.frame,
              !.calls = Append(@, [frame |-> frame, from |-> st.frame,
                                   caller |-> caller, callee |-> callee, op |-> op,
                                   arg |-> arg, ret |-> r.ret, err |-> r.err]),
              !.fwdOut = IF op = "forward" /\ r.err = NoError
                         THEN [@ EXCEPT ![callee] = r.ret]
                         ELSE @]

\* one call caller -> callee, entered in the log when it returns or raises;
\* frame numbers the calls in the order they start, from is the frame of the
\* call whose body made this one (0 for the top-level call)
Call(st, caller, callee, op, arg) ==
    Logged(st, st.frames + 1, caller, callee, op, arg,
           Dispatch([st EXCEPT !.frames = st.frames + 1, !.frame = st.frames + 1],
                    callee, op, arg))

\* the loop goes on with the next module unless the call that ended in r raised
SequentialAfter(r, h, order, i, op) ==
    IF r.err # NoError THEN r
    ELSE SequentialFrom(r, h, order, i + 1, op, r.ret)

\* the loops of Sequential.forward and Sequential.backward over order, from
\* its i-th element on; value is what the previous module returned
SequentialFrom(st, h, order, i, op, value) ==
    IF i > Len(order) THEN Return(st, value)
    ELSE SequentialAfter(Call(st, h, order[i], op, value), h, order, i, op)

Forward(st, h, input_) ==
    CASE st.objs[h].kind = "FullyConnectedLayer" -> FullyConnectedForward(st, h, input_)
      [] st.objs[h].kind = "ReLULayer" -> ReLUForward(st, h, input_)
      [] st.objs[h].kind = "LinearActivation" -> LinearForward(st, h, input_)
      [] st.objs[h].kind = "Flatten" -> FlattenForward(st, h, input_)
      [] st.objs[h].kind = "MaxPool2d" -> MaxPool2dForward(st, h, input_)
      [] st.objs[h].kind = "BatchNormalization2d" -> BatchNormForward(st, h, input_)
      [] st.objs[h].kind = "Conv2dWithLoops" -> Conv2dWithLoopsForwardOn(st, h, input_)
      [] st.objs[h].kind = "Conv2d" -> Conv2dForwardOn(st, h, input_)
      [] st.objs[h].kind = "Sequential" ->
            SequentialFrom(st, h, st.objs[h].nn_modules, 1, "forward", input_)

Backward(st, h, output_gradient) ==
    CASE st.objs[h].kind = "FullyConnectedLayer" ->
            FullyConnectedBackward(st, h, output_gradient)
      [] st.objs[h].kind = "ReLULayer" -> ReLUBackward(st, h, output_gradient)
      [] st.objs[h].kind = "LinearActivation" -> LinearBackward(st, h, output_gradient)
      [] st.objs[h].kind = "Flatten" -> FlattenBackward(st, h, output_gradient)
      [] st.objs[h].kind = "MaxPool2d" -> MaxPool2dBackward(st, h, output_gradient)
      [] st.objs[h].kind = "BatchNormalization2d" ->
            BatchNormBackward(st, h, output_gradient)
      [] st.objs[h].kind = "Conv2dWithLoops" ->
            Conv2dWithLoopsBackwardOn(st, h, output_gradient)
      [] st.objs[h].kind = "Conv2d" -> Conv2dBackwardOn(st, h, output_gradient)
      [] st.objs[h].kind = "Sequential" ->
            SequentialFrom(st, h, BackwardOrder(st.objs[h].nn_modules), 1,
                           "backward", output_gradient)

\* the machine state a top-level call starts from
Machine ==
    [objs |-> objs, arrays |-> arrays, calls |-> <<>>, fwdOut |-> fwdOut,
     frames |-> 0, frame |-> 0, ret |-> None, err |-> NoError]

\* the state after a top-level call op(arg) on object h that ended in st
Finish(st, op, h, arg) ==
    /\ objs' = st.objs
    /\ arrays' = st.arrays
    /\ calls' = st.calls
    /\ fwdOut' = st.fwdOut
    /\ outcome' = [op |-> op, target |-> h, arg |-> arg, ret |-> st.ret, err |-> st.err]
    /\ UNCHANGED convVars

(***************************************************************************)
(* Networks: layers are constructed, put into Sequential containers (which *)
(* may contain containers), switched between training and evaluation mode, *)
(* and run forward and backward on (1, 1) tensors.                         *)
(***************************************************************************)
MaxLeaves == 2          \* layers constructed
MaxSequentials == 2     \* containers constructed
MaxChildren == 2        \* modules given to one container

LeafKinds == {"FullyConnectedLayer", "ReLULayer"}

\* the inputs and output gradients of the top-level calls
InputTensors == {<<<<-1>>>>, <<<<2>>>>}

GradientTensors == {<<<<-2>>>>}

Handles == 1..Len(objs)

Sequentials == {h \in Handles : objs[h].kind = "Sequential"}

\* the lists of distinct existing modules a container can be built from
ModuleLists ==
    {l \in UNION {[1..n -> Handles] : n \in 1..MaxChildren} :
        \A i, j \in 1..Len(l) : i # j => l[i] # l[j]}

\* The network is built before it is used: nothing is constructed once a
\* call has been made.
ConstructLayer(kind) ==
    /\ outcome = None
    /\ Cardinality(Handles \ Sequentials) < MaxLeaves
    /\ IF kind = "FullyConnectedLayer"
       THEN LET n == NextId(id_iter)
            IN /\ id_iter' = n.counter
               /\ issued' = Append(issued, n.value)
               /\ arrays' = arrays \o <<InitialWeights(n.value, 1, 1),
                                        InitialBias(n.value, 1)>>
               /\ objs' = Append(objs, NewFullyConnectedLayer(
                                           n.value, Len(arrays) + 1, Len(arrays) + 2))
       ELSE /\ objs' = Append(objs, NewModule(kind))
            /\ UNCHANGED <<id_iter, issued, arrays>>
    /\ fwdOut' = Append(fwdOut, None)
    /\ UNCHANGED <<calls, outcome>>
    /\ UNCHANGED convVars

ConstructSequential(nn_modules) ==
    /\ outcome = None
    /\ Cardinality(Sequentials) < MaxSequentials
    /\ objs' = Append(objs, NewSequential(objs, nn_modules))
    /\ fwdOut' = Append(fwdOut, None)
    /\ UNCHANGED <<id_iter, issued, arrays, calls, outcome>>
    /\ UNCHANGED convVars

\* h.train() / h.eval()
Train(h) ==
    /\ Finish(SetTraining(Machine, h, TRUE, 1), "train", h, None)
    /\ UNCHANGED <<id_iter, issued>>

Eval(h) ==
    /\ Finish(SetTraining(Machine, h, FALSE, 1), "eval", h, None)
    /\ UNCHANGED <<id_iter, issued>>

\* h.forward(input_) called from outside (caller 0)
CallForward(h, input_) ==
    /\ Finish(Call(Machine, 0, h, "forward", input_), "forward", h, input_)
    /\ UNCHANGED <<id_iter, issued>>

\* h.backward(output_gradient) called from outside (caller 0)
CallBackward(h, output_gradient) ==
    /\ Finish(Call(Machine, 0, h, "backward", output_gradient),
              "backward", h, output_gradient)
    /\ UNCHANGED <<id_iter, issued>>

\* train() and eval() are called on containers and on trainable layers
ModeTargets == {h \in Handles : objs[h].kind \in TrainableKinds \cup {"Sequential"}}

SeqInit == WorldInit /\ ConvIdle

SeqNext ==
    \/ \E kind \in LeafKinds : ConstructLayer(kind)
    \/ \E nn_modules \in ModuleLists : ConstructSequential(nn_modules)
    \/ \E h \in Sequentials : Train(h)
    \/ \E h \in Sequentials : Eval(h)
    \/ \E h \in Sequentials, input_ \in InputTensors : CallForward(h, input_)
    \/ \E h \in Sequentials, output_gradient \in GradientTensors :
           CallBackward(h, output_gradient)

SpecSeq == SeqInit /\ [][SeqNext]_vars

\* Networks that are built and then only switched between the two modes,
\* from any container and any trainable layer.
ModeInit == WorldInit /\ ConvIdle

ModeNext ==
    \/ \E kind \in LeafKinds : ConstructLayer(kind)
    \/ \E nn_modules \in ModuleLists : ConstructSequential(nn_modules)
    \/ \E h \in ModeTargets : Train(h)
    \/ \E h \in ModeTargets : Eval(h)

SpecMode == ModeInit /\ [][ModeNext]_vars

\* the calls made from the body of call e during the last top-level call
DirectCalls(e) == SelectSeq(calls, LAMBDA c : c.from = e.frame)

\* C4: Sequential.forward calls forward on each contained module once, in list
\* order, each module receiving what the previous one returned, and returns
\* what the last one returned; Sequential.backward does the same with
\* backward in the reverse order and returns the first module's result.
SequentialPipesInOrder ==
    \A e \in {calls[i] : i \in 1..Len(calls)} :
        (objs[e.callee].kind = "Sequential" /\ e.err = NoError) =>
            LET made == DirectCalls(e)
                nn_modules == objs[e.callee].nn_modules
                n == Len(nn_modules)
            IN /\ Len(made) = n
               /\ \A i \in 1..n :
                      /\ made[i].op = e.op
                      /\ made[i].caller = e.callee
                      /\ made[i].callee =
                             IF e.op = "forward" THEN nn_modules[i]
                             ELSE nn_modules[n + 1 - i]
                      /\ made[i].arg = IF i = 1 THEN e.arg ELSE made[i - 1].ret
               /\ e.ret = made[n].ret

\* a backward call on a container of two modules, one of them a container,
\* has returned, and the gradient changed on the way
SequentialPipesInOrderWitness ==
    /\ outcome # None
    /\ outcome.op = "backward" /\ outcome.err = NoError
    /\ Len(objs[outcome.target].nn_modules) = 2
    /\ \E i \in 1..2 : objs[objs[outcome.target].nn_modules[i]].kind = "Sequential"
    /\ \E i \in 1..2 :
           objs[objs[outcome.target].nn_modules[i]].kind = "FullyConnectedLayer"
    /\ outcome.ret # outcome.arg

\* the trainable layers found by walking container h and the containers in it
RECURSIVE TrainableLeaves(_), TrainableLeavesOfList(_)
TrainableLeaves(h) ==
    IF objs[h].kind = "Sequential" THEN TrainableLeavesOfList(objs[h].nn_modules)
    ELSE IF objs[h].kind \in TrainableKinds THEN <<h>>
    ELSE <<>>

TrainableLeavesOfList(l) ==
    IF l = <<>> THEN <<>> ELSE TrainableLeaves(Head(l)) \o TrainableLeavesOfList(Tail(l))

TrainableListIsFlattened ==
    \A h \in Sequentials :
        /\ objs[h].trainable_layers = TrainableLeaves(h)
        /\ GetTrainableLayers(objs, h) = objs[h].trainable_layers

\* C5: a Sequential's trainable-layer list is the concatenation, in module
\* order, of its modules' trainable-layer lists, nested containers flattened
\* in place; the list is fixed at construction: no later forward, backward,
\* train or eval changes it.
TrainableListFlattenedAndFixed ==
    /\ []TrainableListIsFlattened
    /\ [][\A h \in Sequentials :
             objs'[h].trainable_layers = objs[h].trainable_layers]_vars

\* a container holding a trainable layer and, before it, a container with
\* another trainable layer, after a backward call and a mode switch
TrainableListFlattenedAndFixedWitness ==
    /\ outcome # None /\ outcome.op = "eval"
    /\ \E h \in Sequentials :
           /\ Len(objs[h].nn_modules) = 2
           /\ objs[objs[h].nn_modules[1]].kind = "Sequential"
           /\ objs[objs[h].nn_modules[2]].kind = "FullyConnectedLayer"
           /\ Len(objs[h].trainable_layers) = 2
           /\ objs[objs[h].nn_modules[2]].weights_gradient # None

\* C6: after train() (eval()) on a module, its training flag and the flag of
\* every trainable layer in it, nested containers included, is True (False),
\* and the call returns: it does not recurse without end, also not on a
\* trainable layer, whose trainable-layer list is the layer itself.
ModeReachesTrainableLayers ==
    (outcome # None /\ outcome.op \in {"train", "eval"}) =>
        LET flag == (outcome.op = "train")
        IN /\ outcome.err = NoError
           /\ objs[outcome.target].training = flag
           /\ \A i \in 1..Len(TrainableLeaves(outcome.target)) :
                  objs[TrainableLeaves(outcome.target)[i]].training = flag

\* eval() has returned on a container that holds a container with a
\* trainable layer in it; earlier, eval() and then train() ran on a layer
ModeReachesTrainableLayersWitness ==
    /\ outcome # None /\ outcome.op = "eval"
    /\ objs[outcome.target].kind = "Sequential"
    /\ \E i \in 1..Len(objs[outcome.target].nn_modules) :
           LET inner == objs[outcome.target].nn_modules[i]
           IN /\ objs[inner].kind = "Sequential"
              /\ \E j \in 1..Len(objs[inner].nn_modules) :
                     /\ objs[objs[inner].nn_modules[j]].kind = "FullyConnectedLayer"
                     /\ ~objs[objs[inner].nn_modules[j]].training
    /\ \E h \in Handles : objs[h].kind = "FullyConnectedLayer" /\ objs[h].training

(***************************************************************************)
(* Single layers: layers are constructed and called forward and backward   *)
(* directly, in any order, with tensors of the shapes (1, 1), (2, 1) and   *)
(* (1, 2).                                                                 *)
(***************************************************************************)
LayerKinds == {"FullyConnectedLayer", "ReLULayer", "LinearActivation", "Flatten"}

LayerInputs == {<<<<1>>>>, <<<<-1>>, <<2>>>>, <<<<2, -1>>>>}

LayerGradients == {<<<<3>>>>, <<<<3>>, <<-2>>>>, <<<<3, -2>>>>}

Layers == {h \in Handles : objs[h].kind \in LayerKinds}

\* the outcome of a constructor call that made object h
Constructed(h) ==
    [op |-> "__init__", target |-> h, arg |-> None, ret |-> None, err |-> NoError]

\* a layer is constructed; unlike in a network, at any time
ConstructLayerAnyTime(kind) ==
    /\ Cardinality(Layers) < MaxLeaves
    /\ IF kind = "FullyConnectedLayer"
       THEN LET n == NextId(id_iter)
            IN /\ id_iter' = n.counter
               /\ issued' = Append(issued, n.value)
               /\ arrays' = arrays \o <<InitialWeights(n.value, 1, 1),
                                        InitialBias(n.value, 1)>>
               /\ objs' = Append(objs, NewFullyConnectedLayer(
                                           n.value, Len(arrays) + 1, Len(arrays) + 2))
       ELSE /\ objs' = Append(objs, NewModule(kind))
            /\ UNCHANGED <<id_iter, issued, arrays>>
    /\ fwdOut' = Append(fwdOut, None)
    /\ outcome' = Constructed(Len(objs) + 1)
    /\ UNCHANGED calls
    /\ UNCHANGED convVars

LayerInit == WorldInit /\ ConvIdle

LayerNext ==
    \/ \E kind \in LayerKinds : ConstructLayerAnyTime(kind)
    \/ \E h \in Layers, input_ \in LayerInputs : CallForward(h, input_)
    \/ \E h \in Layers, output_gradient \in LayerGradients :
           CallBackward(h, output_gradient)

SpecLayer == LayerInit /\ [][LayerNext]_vars

\* C8: backward on a layer whose forward has not produced an output, or with
\* an output gradient whose shape is not the shape of the last forward's
\* output, fails with a ShapeMismatch error: it returns no gradient and
\* fails with no other kind of error.
BackwardRejectsWithShapeMismatch ==
    (/\ outcome # None
     /\ outcome.op = "backward"
     /\ \/ fwdOut[outcome.target] = None
        \/ Shape2(outcome.arg) # Shape2(fwdOut[outcome.target]))
        => outcome.err = "ShapeMismatch"

(***************************************************************************)
(* Optimizers.  An optimizer is an object of the heap that holds the list  *)
(* of the layers it updates.  Parameters are arrays of the store, so an    *)
(* update in place is seen by the layer that holds the array.              *)
(*                                                                         *)
(* The decay rates are beta1 = 2/4 and beta2 = 3/4; a moment estimate is   *)
(* kept as the integer MomentScale times its value, which is exact for     *)
(* MaxSteps updates.  steps counts the step() calls made on an optimizer.  *)
(***************************************************************************)
MaxSteps == 2           \* step() calls on one optimizer
MaxListed == 2          \* layers in the list given to an optimizer

BetaDenominator == 4

Beta1Numerator == 2

Beta2Numerator == 3

RECURSIVE Power(_, _)
Power(b, n) == IF n = 0 THEN 1 ELSE b * Power(b, n - 1)

MomentScale == Power(BetaDenominator, MaxSteps)

\* np.zeros_like(param)
ZerosLike(param) == Matrix(Rows(param), Cols(param), LAMBDA r, c : 0)

\* FullyConnectedLayer.get_parameters_and_gradients_and_ids
GetParametersAndGradientsAndIds(os, h) ==
    LET self == os[h]
        ids == GetWAndBIds(self)
    IN <<[parameter |-> self.weights, gradient |-> self.weights_gradient,
          id |-> ids[1]],
         [parameter |-> self.bias, gradient |-> self.bias_gradient, id |-> ids[2]]>>

\* the (parameter, gradient, id) triples in the order the loops of step and
\* of AdamOptimizer.__init__ visit them
RECURSIVE ParametersOfLayers(_, _)
ParametersOfLayers(os, trainable_layers) ==
    IF trainable_layers = <<>> THEN <<>>
    ELSE GetParametersAndGradientsAndIds(os, Head(trainable_layers))
         \o ParametersOfLayers(os, Tail(trainable_layers))

\* GradientDescentOptimizer.__init__
NewGradientDescentOptimizer(trainable_layers, learning_rate) ==
    [kind |-> "GradientDescentOptimizer", trainable_layers |-> trainable_layers,
     learning_rate |-> learning_rate, steps |-> 0]

\* a plausible slip: only the weights get an entry, the biases do not
ZeroMomentsOfWeightsOnly(os, as, trainable_layers) ==
    LET entries == ParametersOfLayers(os, trainable_layers)
        odd == {i \in 1..Len(entries) : i % 2 = 1}
    IN [id \in {entries[i].id : i \in odd} |->
           LET i == CHOOSE i \in odd : entries[i].id = id
           IN ZerosLike(as[entries[i].parameter])]

\* the loop of AdamOptimizer.__init__: self.m[id] = np.zeros_like(param)
ZeroMoments(os, as, trainable_layers) ==
    LET entries == ParametersOfLayers(os, trainable_layers)
    IN [id \in {entries[i].id : i \in 1..Len(entries)} |->
           LET i == CHOOSE i \in 1..Len(entries) : entries[i].id = id
           IN ZerosLike(as[entries[i].parameter])]

\* AdamOptimizer.__init__
NewAdamOptimizer(os, as, trainable_layers, learning_rate) ==
    [kind |-> "AdamOptimizer", trainable_layers |-> trainable_layers,
     learning_rate |-> learning_rate,
     beta1 |-> Beta1Numerator, beta2 |-> Beta2Numerator,
     m |-> ZeroMoments(os, as, trainable_layers),
     v |-> ZeroMoments(os, as, trainable_layers),
     t |-> 0, steps |-> 0]

\* a plausible slip: the result goes to a new array and the name parameter is
\* bound to it (parameter = parameter - x); the layer's array is untouched
SubtractIntoCopy(as, parameter, x) ==
    Append(as, Matrix(Rows(as[parameter]), Cols(as[parameter]),
                      LAMBDA r, c : as[parameter][r][c] - BroadcastAt(x, r, c)))

\* parameter -= x on the array the name parameter refers to
SubtractInPlace(as, parameter, x) ==
    [as EXCEPT ![parameter] =
        Matrix(Rows(@), Cols(@), LAMBDA r, c : @[r][c] - BroadcastAt(x, r, c))]

\* x can be broadcast to the shape of parameter, as an in-place operation needs
FitsInPlace(parameter, x) ==
    /\ Rows(x) = Rows(parameter) \/ Rows(x) = 1
    /\ Cols(x) = Cols(parameter) \/ Cols(x) = 1

\* learning_rate * gradient
Times(k, a) == Matrix(Rows(a), Cols(a), LAMBDA r, c : k * a[r][c])

\* the loops of GradientDescentOptimizer.step from the i-th triple on
RECURSIVE GradientDescentFrom(_, _, _, _)
GradientDescentFrom(st, learning_rate, entries, i) ==
    IF i > Len(entries) THEN Return(st, None)
    ELSE LET e == entries[i]
         IN IF e.gradient = None
            THEN Raise(st, "TypeError")          \* self.learning_rate * None
            ELSE IF ~FitsInPlace(st.arrays[e.parameter], e.gradient)
            THEN Raise(st, "ValueError")
            ELSE GradientDescentFrom(
                     [st EXCEPT !.arrays = SubtractInPlace(
                                    @, e.parameter, Times(learning_rate, e.gradient))],
                     learning_rate, entries, i + 1)

\* GradientDescentOptimizer.step
GradientDescentStep(st, o) ==
    GradientDescentFrom(st, st.objs[o].learning_rate,
                        ParametersOfLayers(st.objs, st.objs[o].trainable_layers), 1)

\* beta * moment + (1 - beta) * x with broadcasting, on moments scaled by
\* MomentScale
Decay(beta, moment, x) ==
    Matrix(Max(Rows(moment), Rows(x)), Max(Cols(moment), Cols(x)),
           LAMBDA r, c : (beta * BroadcastAt(moment, r, c)
                          + (BetaDenominator - beta) * MomentScale
                            * BroadcastAt(x, r, c))
                         \div BetaDenominator)

\* AdamOptimizer.update
AdamUpdate(st, o, gradient, cache_id) ==
    LET self == st.objs[o]
    IN IF cache_id \notin DOMAIN self.m
       THEN Raise(st, "KeyError")
       ELSE IF gradient = None
       THEN Raise(st, "TypeError")               \* (1 - self.beta1) * None
       ELSE IF ~CanBroadcast(self.m[cache_id], gradient)
       THEN Raise(st, "ValueError")
       ELSE Return([st EXCEPT
                       !.objs[o].m[cache_id] = Decay(self.beta1, @, gradient),
                       !.objs[o].v[cache_id] =
                           Decay(self.beta2, @, Multiply(gradient, gradient))],
                   None)

\* AdamOptimizer.step.  After the first update, self.m * (1 - self.beta1 **
\* self.t) multiplies a dict by a float, which raises TypeError; the lines
\* after it are never reached.
AdamStep(st, o) ==
    LET counted == [st EXCEPT !.objs[o].t = @ + 1]
        entries == ParametersOfLayers(st.objs, st.objs[o].trainable_layers)
    IN IF entries = <<>> THEN Return(counted, None)
       ELSE LET updated == AdamUpdate(counted, o, entries[1].gradient, entries[1].id)
            IN IF updated.err # NoError THEN updated
               ELSE Raise(updated, "TypeError")

(***************************************************************************)
(* Training: fully connected layers with one input and one output neuron   *)
(* are constructed and run forward and backward, an optimizer is           *)
(* constructed on a list of them, and step() is called at any time.        *)
(***************************************************************************)
LearningRates == {1, 2}

OptimizerKinds == {"GradientDescentOptimizer", "AdamOptimizer"}

OptInputs == {<<<<2>>>>}

OptGradients == {<<<<-1>>>>, <<<<3>>>>}

Optimizers == {h \in Handles : objs[h].kind \in OptimizerKinds}

\* the lists of existing layers an optimizer can be given; a layer may be
\* listed more than once
LayerLists == UNION {[1..n -> Layers] : n \in 1..MaxListed}

ConstructOptimizer(kind, trainable_layers, learning_rate) ==
    /\ Optimizers = {}
    /\ objs' = Append(objs,
                      IF kind = "AdamOptimizer"
                      THEN NewAdamOptimizer(objs, arrays, trainable_layers, learning_rate)
                      ELSE NewGradientDescentOptimizer(trainable_layers, learning_rate))
    /\ fwdOut' = Append(fwdOut, None)
    /\ outcome' = Constructed(Len(objs) + 1)
    /\ UNCHANGED <<id_iter, issued, arrays, calls>>
    /\ UNCHANGED convVars

\* o.step() called from outside; before is the heap the call started from
Step(o) ==
    /\ objs[o].steps < MaxSteps
    /\ LET st == IF objs[o].kind = "AdamOptimizer" THEN AdamStep(Machine, o)
                 ELSE GradientDescentStep(Machine, o)
       IN /\ objs' = [st.objs EXCEPT ![o].steps = @ + 1]
          /\ arrays' = st.arrays
          /\ calls' = st.calls
          /\ outcome' = [op |-> "step", target |-> o, arg |-> None,
                         ret |-> st.ret, err |-> st.err,
                         before |-> [objs |-> objs, arrays |-> arrays]]
    /\ UNCHANGED <<id_iter, issued, fwdOut>>
    /\ UNCHANGED convVars

OptInit == WorldInit /\ ConvIdle

OptNext ==
    \/ ConstructLayerAnyTime("FullyConnectedLayer")
    \/ \E kind \in OptimizerKinds, trainable_layers \in LayerLists,
          learning_rate \in LearningRates :
           ConstructOptimizer(kind, trainable_layers, learning_rate)
    \/ \E h \in Layers, input_ \in OptInputs : CallForward(h, input_)
    \/ \E h \in Layers, output_gradient \in OptGradients :
           CallBackward(h, output_gradient)
    \/ \E o \in Optimizers : Step(o)

SpecOpt == OptInit /\ [][OptNext]_vars

\* the last top-level call was step() on an optimizer of this kind
StepDone(kind) ==
    /\ outcome # None
    /\ outcome.op = "step"
    /\ objs[outcome.target].kind = kind

\* the (parameter, gradient, id) triples the last step() started from
EntriesBefore ==
    ParametersOfLayers(outcome.before.objs,
                       outcome.before.objs[outcome.target].trainable_layers)

AllGradientsPopulated ==
    \A i \in 1..Len(EntriesBefore) : EntriesBefore[i].gradient # None

\* C2: AdamOptimizer.step with every gradient populated completes; for each
\* parameter it sets m = beta1*m + (1-beta1)*g and v = beta2*v + (1-beta2)*g^2
\* under the parameter's identity, and decreases the parameter in place by
\* learning_rate * corrected m / (sqrt(corrected v) + epsilon), a quantity of
\* the sign of m.
AdamStepAppliesUpdate ==
    (StepDone("AdamOptimizer") /\ AllGradientsPopulated) =>
        LET self == outcome.before.objs[outcome.target]
            now == objs[outcome.target]
            entries == EntriesBefore
            once == {i \in 1..Len(entries) :
                        \A j \in 1..Len(entries) :
                            entries[j].id = entries[i].id => j = i}
        IN /\ outcome.err = NoError
           /\ now.t = self.t + 1
           /\ \A i \in once :
                  LET e == entries[i]
                      was == outcome.before.arrays[e.parameter]
                      is == arrays[e.parameter]
                  IN /\ now.m[e.id] = Decay(self.beta1, self.m[e.id], e.gradient)
                     /\ now.v[e.id] = Decay(self.beta2, self.v[e.id],
                                            Multiply(e.gradient, e.gradient))
                     /\ \A r \in 1..Rows(was), c \in 1..Cols(was) :
                            /\ now.m[e.id][r][c] > 0 => is[r][c] < was[r][c]
                            /\ now.m[e.id][r][c] < 0 => is[r][c] > was[r][c]
                            /\ now.m[e.id][r][c] = 0 => is[r][c] = was[r][c]

\* the identities of the parameters of the layers in the list of optimizer o
ListedParameterIds(o) ==
    UNION {{GetWAndBIds(objs[objs[o].trainable_layers[i]])[1],
            GetWAndBIds(objs[objs[o].trainable_layers[i]])[2]} :
               i \in 1..Len(objs[o].trainable_layers)}

Adams == {o \in Handles : objs[o].kind = "AdamOptimizer"}

\* C3: the key sets of the first-moment and second-moment maps are equal and
\* are the parameter identities of the layers given at construction; at
\* construction every entry is a zero tensor of the parameter's shape; no
\* step, successful or failing, adds or removes a key.
AdamMomentKeysFixed ==
    /\ [](\A o \in Adams :
              /\ DOMAIN objs[o].m = DOMAIN objs[o].v
              /\ DOMAIN objs[o].m = ListedParameterIds(o))
    /\ [][\A o \in 1..Len(objs') :
              (o > Len(objs) /\ objs'[o].kind = "AdamOptimizer") =>
                  \A i \in 1..Len(objs'[o].trainable_layers) :
                      LET layer == objs[objs'[o].trainable_layers[i]]
                          ids == GetWAndBIds(layer)
                      IN /\ objs'[o].m[ids[1]] = ZerosLike(arrays[layer.weights])
                         /\ objs'[o].v[ids[1]] = ZerosLike(arrays[layer.weights])
                         /\ objs'[o].m[ids[2]] = ZerosLike(arrays[layer.bias])
                         /\ objs'[o].v[ids[2]] = ZerosLike(arrays[layer.bias])]_vars
    /\ [][\A o \in Adams :
              /\ DOMAIN objs'[o].m = DOMAIN objs[o].m
              /\ DOMAIN objs'[o].v = DOMAIN objs[o].v
              /\ objs'[o].trainable_layers = objs[o].trainable_layers]_vars

\* an Adam optimizer on two different layers has made two step() calls, the
\* last of which failed, and a moment estimate is no longer zero
AdamMomentKeysFixedWitness ==
    /\ StepDone("AdamOptimizer")
    /\ outcome.err # NoError
    /\ objs[outcome.target].steps = 2
    /\ Cardinality(DOMAIN objs[outcome.target].m) = 4
    /\ \E id \in DOMAIN objs[outcome.target].m :
           objs[outcome.target].m[id] # ZerosLike(objs[outcome.target].m[id])

\* C9: step() of either optimizer, called while the gradient of a listed
\* parameter is absent, is rejected with an UninitializedGradient error.
StepRejectsAbsentGradient ==
    (/\ outcome # None
     /\ outcome.op = "step"
     /\ ~AllGradientsPopulated) => outcome.err = "UninitializedGradient"

\* C10: GradientDescentOptimizer.step with every gradient populated replaces
\* each parameter p of each listed layer, once per place in the list, by
\* p - learning_rate * g; the array the layer holds is the one updated, and
\* the layers (their gradients included), the learning rate and the layer
\* list are unchanged.
GradientDescentUpdatesInPlace ==
    (StepDone("GradientDescentOptimizer") /\ AllGradientsPopulated) =>
        LET before == outcome.before
            self == before.objs[outcome.target]
            entries == EntriesBefore
        IN /\ outcome.err = NoError
           /\ Len(arrays) = Len(before.arrays)
           /\ \A a \in 1..Len(arrays) :
                  arrays[a] =
                      Matrix(Rows(before.arrays[a]), Cols(before.arrays[a]),
                             LAMBDA r, c :
                                 before.arrays[a][r][c]
                                 - self.learning_rate
                                   * Sum1(Len(entries),
                                          LAMBDA i :
                                              IF entries[i].parameter = a
                                              THEN entries[i].gradient[r][c]
                                              ELSE 0))
           /\ \A h \in 1..Len(objs) : h # outcome.target => objs[h] = before.objs[h]
           /\ objs[outcome.target].learning_rate = self.learning_rate
           /\ objs[outcome.target].trainable_layers = self.trainable_layers

\* a gradient descent step on two different layers with populated gradients
\* has returned and every parameter of both layers has a new value
GradientDescentUpdatesInPlaceWitness ==
    /\ StepDone("GradientDescentOptimizer")
    /\ AllGradientsPopulated
    /\ outcome.err = NoError
    /\ Len(objs[outcome.target].trainable_layers) = 2
    /\ objs[outcome.target].trainable_layers[1] # objs[outcome.target].trainable_layers[2]
    /\ \A a \in 1..Len(arrays) : arrays[a] # outcome.before.arrays[a]

(***************************************************************************)
(* Pooling: a MaxPool2d layer is constructed and called forward and        *)
(* backward on 4-d tensors (batch, channels, height, width).               *)
(***************************************************************************)
MaxPools == 1           \* pooling layers constructed

Pools == {h \in Handles : objs[h].kind = "MaxPool2d"}

ConstructMaxPool2d(kernel_size, stride, padding, use_neg_inf_for_padding) ==
    /\ Cardinality(Pools) < MaxPools
    /\ objs' = Append(objs, NewMaxPool2d(kernel_size, stride, padding,
                                         use_neg_inf_for_padding))
    /\ fwdOut' = Append(fwdOut, None)
    /\ outcome' = Constructed(Len(objs) + 1)
    /\ UNCHANGED <<id_iter, issued, arrays, calls>>
    /\ UNCHANGED convVars

\* the inputs given to pooling layer h: every shape its kernel fits in
PoolInputs(h) ==
    {GenTensor4(seed, B, C, H, W) :
        seed \in 1..NumSeeds, B \in 1..MaxBatch, C \in 1..MaxChannels,
        H \in {H \in 1..MaxSize : H + 2 * objs[h].padding >= objs[h].kernel_size},
        W \in {W \in 1..MaxSize : W + 2 * objs[h].padding >= objs[h].kernel_size}}

\* the output gradients given to layer h: of the shape of its last output,
\* or of shape (1, 1, 1, 1) when forward has not been called
OutputGradients4(h) ==
    {IF fwdOut[h] = None THEN GenTensor4(seed, 1, 1, 1, 1)
     ELSE LET sh == Shape4(fwdOut[h])
          IN GenTensor4(seed, sh[1], sh[2], sh[3], sh[4]) : seed \in 1..NumSeeds}

PoolInit == WorldInit /\ ConvIdle

PoolNext ==
    \/ \E kernel_size \in 1..MaxKernel, stride \in 1..MaxStride,
          padding \in 0..MaxPadding, use_neg_inf_for_padding \in BOOLEAN :
           ConstructMaxPool2d(kernel_size, stride, padding, use_neg_inf_for_padding)
    \/ \E h \in Pools : \E input_ \in PoolInputs(h) : CallForward(h, input_)
    \/ \E h \in Pools : \E output_gradient \in OutputGradients4(h) :
           CallBackward(h, output_gradient)

SpecPool == PoolInit /\ [][PoolNext]_vars

\* the last top-level call was op on a MaxPool2d layer and it returned
PoolDone(op) ==
    /\ outcome # None
    /\ outcome.op = op
    /\ objs[outcome.target].kind = "MaxPool2d"
    /\ outcome.err = NoError

\* the windows (oh, ow) of layer self that cover cell (i, j) of a padded plane
\* with out_height x out_width windows
WindowsOver(self, out_height, out_width, i, j) ==
    {win \in (1..out_height) \X (1..out_width) :
        /\ i > (win[1] - 1) * self.stride
        /\ i <= (win[1] - 1) * self.stride + self.kernel_size
        /\ j > (win[2] - 1) * self.stride
        /\ j <= (win[2] - 1) * self.stride + self.kernel_size}

\* the cells (i, j) of a padded plane that window win of layer self covers
CellsOf(self, win) ==
    ((win[1] - 1) * self.stride + 1..(win[1] - 1) * self.stride + self.kernel_size)
    \X ((win[2] - 1) * self.stride + 1..(win[2] - 1) * self.stride + self.kernel_size)

RECURSIVE SumOver(_, _)
SumOver(S, upstream) ==
    IF S = {} THEN 0
    ELSE LET win == CHOOSE win \in S : TRUE
         IN upstream[win[1]][win[2]] + SumOver(S \ {win}, upstream)

\* C11: the gradient MaxPool2d.backward returns holds, at every position, the
\* sum of the upstream gradients of the windows that cover the position and
\* whose maximum the position's value equals: tied maxima each get the full
\* value, other positions get nothing, overlapping windows add up.
MaxPoolBackwardRoutesToMaxima ==
    PoolDone("backward") =>
        LET self == objs[outcome.target]
            sh == Shape4(self.input_)
            padded == MaxPool2dGetPaddedInput(self, self.input_)
            out == Shape4(outcome.arg)
        IN /\ Shape4(outcome.ret) = sh
           /\ \A b \in 1..sh[1], c \in 1..sh[2], i \in 1..sh[3], j \in 1..sh[4] :
                  LET pi == i + self.padding
                      pj == j + self.padding
                      won == {win \in WindowsOver(self, out[3], out[4], pi, pj) :
                                 \A cell \in CellsOf(self, win) :
                                     padded[b][c][pi][pj]
                                         >= padded[b][c][cell[1]][cell[2]]}
                  IN outcome.ret[b][c][i][j] = SumOver(won, outcome.arg[b][c])

\* a backward call has returned where some window has two tied maxima that
\* both got its nonzero gradient, and some position got the gradients of two
\* windows
MaxPoolBackwardRoutesToMaximaWitness ==
    /\ PoolDone("backward")
    /\ LET self == objs[outcome.target]
           sh == Shape4(self.input_)
           padded == MaxPool2dGetPaddedInput(self, self.input_)
           out == Shape4(outcome.arg)
           wins == (1..out[3]) \X (1..out[4])
           real == (self.padding + 1..self.padding + sh[3])
                   \X (self.padding + 1..self.padding + sh[4])
           IsMax(b, c, win, cell) ==
               /\ cell \in CellsOf(self, win) \cap real
               /\ \A other \in CellsOf(self, win) :
                      padded[b][c][cell[1]][cell[2]]
                          >= padded[b][c][other[1]][other[2]]
       IN /\ \E b \in 1..sh[1], c \in 1..sh[2], win \in wins, p, q \in real :
                 /\ p # q
                 /\ IsMax(b, c, win, p) /\ IsMax(b, c, win, q)
                 /\ outcome.arg[b][c][win[1]][win[2]] # 0
                 /\ outcome.ret[b][c][p[1] - self.padding][p[2] - self.padding] # 0
                 /\ outcome.ret[b][c][q[1] - self.padding][q[2] - self.padding] # 0
          /\ \E b \in 1..sh[1], c \in 1..sh[2], v, w \in wins, p \in real :
                 /\ v # w
                 /\ IsMax(b, c, v, p) /\ IsMax(b, c, w, p)
                 /\ outcome.arg[b][c][v[1]][v[2]] > 0
                 /\ outcome.arg[b][c][w[1]][w[2]] > 0
                 /\ outcome.ret[b][c][p[1] - self.padding][p[2] - self.padding]
                        >= outcome.arg[b][c][v[1]][v[2]] + outcome.arg[b][c][w[1]][w[2]]

\* C17: with negative-infinity padding, the output of MaxPool2d.forward for
\* a window that holds a real input cell is the maximum of the real cells of
\* the window.
MaxPoolIgnoresPadding ==
    (PoolDone("forward") /\ objs[outcome.target].use_neg_inf_for_padding) =>
        LET self == objs[outcome.target]
            sh == Shape4(outcome.arg)
            out == Shape4(outcome.ret)
        IN \A b \in 1..out[1], c \in 1..out[2], oh \in 1..out[3], ow \in 1..out[4] :
               LET real == {cell \in CellsOf(self, <<oh, ow>>) :
                               /\ cell[1] > self.padding
                               /\ cell[1] <= self.padding + sh[3]
                               /\ cell[2] > self.padding
                               /\ cell[2] <= self.padding + sh[4]}
                   values == {outcome.arg[b][c][cell[1] - self.padding]
                                               [cell[2] - self.padding] :
                                  cell \in real}
               IN real # {} =>
                      /\ outcome.ret[b][c][oh][ow] \in values
                      /\ \A x \in values : outcome.ret[b][c][oh][ow] >= x

\* a forward call with negative-infinity padding has returned a negative
\* value for a window that holds padding cells and one real cell
MaxPoolIgnoresPaddingWitness ==
    /\ PoolDone("forward")
    /\ objs[outcome.target].use_neg_inf_for_padding
    /\ objs[outcome.target].padding = 1
    /\ objs[outcome.target].kernel_size = 2
    /\ Shape4(outcome.arg)[3] = 1 /\ Shape4(outcome.arg)[4] = 1
    /\ \E b \in 1..Len(outcome.arg), c \in 1..Len(outcome.arg[1]) :
           /\ outcome.arg[b][c][1][1] < 0
           /\ outcome.ret[b][c][1][1] = outcome.arg[b][c][1][1]

(***************************************************************************)
(* Normalisation: BatchNormalization2d layers are constructed, switched    *)
(* between training and evaluation mode, and called forward and backward.  *)
(***************************************************************************)
MaxNorms == 1           \* normalisation layers constructed
MaxForwards == 2        \* forward calls on one normalisation layer
MaxNormSize == 2        \* input height and width 1..MaxNormSize

\* momentum: the default 0.1
Momenta == {Fraction(1, 10)}

\* eps: the default 1e-5
DefaultEps == Fraction(1, 100000)

Norms == {h \in Handles : objs[h].kind = "BatchNormalization2d"}

ConstructBatchNormalization2d(n_channels, momentum) ==
    /\ Cardinality(Norms) < MaxNorms
    /\ LET n == NextId(id_iter)
       IN /\ id_iter' = n.counter
          /\ issued' = Append(issued, n.value)
          /\ objs' = Append(objs, NewBatchNormalization2d(n.value, n_channels,
                                                          momentum, DefaultEps))
    /\ fwdOut' = Append(fwdOut, None)
    /\ outcome' = Constructed(Len(objs) + 1)
    /\ UNCHANGED <<arrays, calls>>
    /\ UNCHANGED convVars

\* the inputs given to normalisation layer h: n_channels channels
NormInputs(h) ==
    {GenTensor4(seed, B, objs[h].n_channels, H, W) :
        seed \in 1..NumSeeds, B \in 1..MaxBatch,
        H \in 1..MaxNormSize, W \in 1..MaxNormSize}

\* the output gradients given to layer h: of the shape of its last input, or
\* of shape (1, 1, 1, 1) when forward has not been called
GradientsLikeInput(h) ==
    {IF objs[h].input_ = None THEN GenTensor4(seed, 1, 1, 1, 1)
     ELSE LET sh == Shape4(objs[h].input_)
          IN GenTensor4(seed, sh[1], sh[2], sh[3], sh[4]) : seed \in 1..NumSeeds}

NormForward(h, input_) ==
    /\ objs[h].forwards < MaxForwards
    /\ CallForward(h, input_)

NormInit == WorldInit /\ ConvIdle

NormNext ==
    \/ \E n_channels \in 1..MaxChannels, momentum \in Momenta :
           ConstructBatchNormalization2d(n_channels, momentum)
    \/ \E h \in Norms : Train(h)
    \/ \E h \in Norms : Eval(h)
    \/ \E h \in Norms : \E input_ \in NormInputs(h) : NormForward(h, input_)
    \/ \E h \in Norms : \E output_gradient \in GradientsLikeInput(h) :
           CallBackward(h, output_gradient)

SpecNorm == NormInit /\ [][NormNext]_vars

\* the last step was a forward call on normalisation layer h of the state
\* before it
NormForwardOn(h) ==
    /\ h \in Norms
    /\ outcome' # None
    /\ outcome'.op = "forward"
    /\ outcome'.target = h

\* C12: an evaluation-mode forward normalises with the stored running mean
\* and running variance and leaves both unchanged; no step other than a
\* training-mode forward changes the running statistics, and a
\* training-mode forward moves them towards the batch statistics once.
RunningStatisticsChangeOnlyInTraining ==
    [][\A h \in Norms :
          LET self == objs[h]
              after == objs'[h]
          IN /\ (NormForwardOn(h) /\ ~self.training) =>
                    /\ after.running_mean = self.running_mean
                    /\ after.running_var = self.running_var
                    /\ outcome'.err = NoError
                    /\ outcome'.ret.norm_input.input_ = outcome'.arg
                    /\ outcome'.ret.norm_input.mean = self.running_mean
                    /\ outcome'.ret.norm_input.var = self.running_var
             /\ ~(NormForwardOn(h) /\ self.training) =>
                    /\ after.running_mean = self.running_mean
                    /\ after.running_var = self.running_var
             /\ (NormForwardOn(h) /\ self.training) =>
                    \A c \in 1..self.n_channels :
                        /\ after.running_mean[c] =
                               FAdd(FMul(self.momentum, BatchMean(outcome'.arg)[c]),
                                    FMul(OneMinus(self.momentum), self.running_mean[c]))
                        /\ outcome'.ret.norm_input.mean = BatchMean(outcome'.arg)
                        /\ outcome'.ret.norm_input.var = BatchVar(outcome'.arg)]_vars

\* a layer that was trained on one batch is in evaluation mode, its second
\* forward call has returned, and its running mean is not the initial one
RunningStatisticsChangeOnlyInTrainingWitness ==
    /\ outcome # None
    /\ outcome.op = "forward"
    /\ objs[outcome.target].kind = "BatchNormalization2d"
    /\ ~objs[outcome.target].training
    /\ objs[outcome.target].forwards = 2
    /\ outcome.err = NoError
    /\ objs[outcome.target].running_mean[1] # FInt(0)
    /\ outcome.ret.norm_input.mean = objs[outcome.target].running_mean

\* C13: a training-mode forward on an input with n elements per channel
\* leaves running_mean = momentum*batch_mean + (1-momentum)*prior and
\* running_var = momentum*batch_variance*n/(n-1) + (1-momentum)*prior, and
\* both are finite, for every input shape, n = 1 included.
RunningStatisticsWellDefined ==
    [][\A h \in Norms :
          LET self == objs[h]
              after == objs'[h]
              x == outcome'.arg
              n == ChannelCount(x)
          IN (NormForwardOn(h) /\ self.training) =>
                 \A c \in 1..self.n_channels :
                     /\ after.running_mean[c] =
                            FAdd(FMul(self.momentum, BatchMean(x)[c]),
                                 FMul(OneMinus(self.momentum), self.running_mean[c]))
                     /\ after.running_var[c] =
                            FAdd(FMul(self.momentum,
                                      FMul(BatchVar(x)[c], Fraction(n, n - 1))),
                                 FMul(OneMinus(self.momentum), self.running_var[c]))
                     /\ IsFinite(after.running_mean[c])
                     /\ IsFinite(after.running_var[c])]_vars

(***************************************************************************)
(* CrossEntropyLossWithSoftMax on activations of two classes with integer  *)
(* entries.  A softmax probability is kept as the exponent its numerator   *)
(* has after the maximum of the row is subtracted: the probability of an   *)
(* entry with exponent d <= 0 is e^d / (1 + e^d') where d' is the exponent *)
(* of the other entry of the row, and one of d, d' is 0.  It is below 1e-8 *)
(* exactly when d <= -19 (e^-19 = 5.6e-9 and e^-18 / 2 = 7.6e-9, but the   *)
(* row then sums to 1 + e^-18, and e^-18 / (1 + e^-18) = 1.5e-8).          *)
(***************************************************************************)
Classes == 2

FloorExponent == -19

\* np.clip(p, 1e-8, None) of one softmax probability
Clip(p) ==
    IF p.exponent <= FloorExponent THEN [fn |-> "1e-8"] ELSE p

\* softmax(x) for a batch x of rows
Softmax(x) ==
    Matrix(Rows(x), Cols(x),
           LAMBDA r, c :
               LET top == CHOOSE v \in {x[r][k] : k \in 1..Cols(x)} :
                              \A k \in 1..Cols(x) : v >= x[r][k]
               IN [fn |-> "softmax", exponent |-> x[r][c] - top,
                   row |-> [k \in 1..Cols(x) |-> x[r][k] - top]])

\* CrossEntropyLossWithSoftMax.forward on the loss object self
LossForward(self, activation, target) ==
    LET pred == Matrix(Rows(activation), Cols(activation),
                       LAMBDA r, c : Clip(Softmax(activation)[r][c]))
    IN [self |-> [self EXCEPT !.pred = pred, !.target = target],
        ret |-> [fn |-> "-np.sum(target * np.log(pred)) / batch_size",
                 pred |-> pred, target |-> target,
                 batch_size |-> Rows(activation)],
        err |-> NoError]

\* CrossEntropyLossWithSoftMax.backward on the loss object self
LossBackward(self) ==
    IF self.pred = None
    THEN [self |-> self, ret |-> None, err |-> "AttributeError"]
    ELSE [self |-> self,
          ret |-> Matrix(Rows(self.pred), Cols(self.pred),
                         LAMBDA r, c :
                             [fn |-> "(pred - target) / batch_size",
                              pred |-> self.pred[r][c],
                              target |-> self.target[r][c],
                              batch_size |-> Rows(self.pred)]),
          err |-> NoError]

\* CrossEntropyLossWithSoftMax()
NewLoss == [kind |-> "CrossEntropyLossWithSoftMax", pred |-> None, target |-> None]

(***************************************************************************)
(* Loss: a loss object is constructed and called forward and backward.     *)
(***************************************************************************)
MaxLosses == 1          \* loss objects constructed

\* the entries of the activations: 20 apart gives a probability below 1e-8
Logits == {0, 3, 20}

Activations == UNION {[1..B -> [1..Classes -> Logits]] : B \in 1..MaxBatch}

\* one-hot targets for a batch of B rows
Targets(B) ==
    [1..B -> {[c \in 1..Classes |-> IF c = k THEN 1 ELSE 0] : k \in 1..Classes}]

Losses == {h \in Handles : objs[h].kind = "CrossEntropyLossWithSoftMax"}

ConstructLoss ==
    /\ Cardinality(Losses) < MaxLosses
    /\ objs' = Append(objs, NewLoss)
    /\ fwdOut' = Append(fwdOut, None)
    /\ outcome' = Constructed(Len(objs) + 1)
    /\ UNCHANGED <<id_iter, issued, arrays, calls>>
    /\ UNCHANGED convVars

\* h.forward(activation, target) called from outside
CallLossForward(h, activation, target) ==
    /\ LET r == LossForward(objs[h], activation, target)
       IN /\ objs' = [objs EXCEPT ![h] = r.self]
          /\ outcome' = [op |-> "forward", target |-> h,
                         arg |-> [activation |-> activation, target |-> target],
                         ret |-> r.ret, err |-> r.err]
    /\ UNCHANGED <<id_iter, issued, arrays, calls, fwdOut>>
    /\ UNCHANGED convVars

\* h.backward() called from outside; activation is the argument of the last
\* forward call
CallLossBackward(h) ==
    /\ LET r == LossBackward(objs[h])
       IN /\ objs' = [objs EXCEPT ![h] = r.self]
          /\ outcome' = [op |-> "backward", target |-> h,
                         arg |-> None, ret |-> r.ret, err |-> r.err,
                         activation |->
                             IF outcome.op = "forward" THEN outcome.arg.activation
                             ELSE IF outcome.op = "backward" THEN outcome.activation
                             ELSE None]
    /\ UNCHANGED <<id_iter, issued, arrays, calls, fwdOut>>
    /\ UNCHANGED convVars

LossInit == WorldInit /\ ConvIdle

LossNext ==
    \/ ConstructLoss
    \/ \E h \in Losses : \E activation \in Activations :
           \E target \in Targets(Rows(activation)) :
               CallLossForward(h, activation, target)
    \/ \E h \in Losses : CallLossBackward(h)

SpecLoss == LossInit /\ [][LossNext]_vars

\* C14: CrossEntropyLossWithSoftMax.backward after forward returns
\* (softmax(activation) - target) / batch_size with the unmodified softmax
\* of the activation given to forward, also where a softmax probability is
\* below 1e-8.
LossBackwardUsesSoftmax ==
    (/\ outcome # None
     /\ outcome.op = "backward"
     /\ objs[outcome.target].kind = "CrossEntropyLossWithSoftMax"
     /\ outcome.activation # None) =>
        /\ outcome.err = NoError
        /\ \A r \in 1..Rows(outcome.activation), c \in 1..Cols(outcome.activation) :
               /\ outcome.ret[r][c].pred = Softmax(outcome.activation)[r][c]
               /\ outcome.ret[r][c].target = objs[outcome.target].target[r][c]
               /\ outcome.ret[r][c].batch_size = Rows(outcome.activation)

(***************************************************************************)
(* Members of a container: one object of any of the eleven layer classes   *)
(* is constructed and handed to Sequential.__init__.                       *)
(***************************************************************************)
MaxMembers == 2         \* layer objects constructed

MemberKinds ==
    {"FullyConnectedLayer", "Conv2dWithLoops", "Conv2d", "MaxPool2d",
     "GlobalAveragePooling2D", "BatchNormalization2d", "Flatten", "ReLULayer",
     "SigmoidLayer", "LinearActivation", "SoftMaxLayer"}

\* GlobalAveragePooling2D.__init__; the class has no base class
NewGlobalAveragePooling2D ==
    [kind |-> "GlobalAveragePooling2D", input_shape |-> None]

\* the classes derived from Module, which inherit or override
\* get_trainable_layers; GlobalAveragePooling2D is not one of them
HasGetTrainableLayers(self) == self.kind # "GlobalAveragePooling2D"

\* Sequential.__init__ as a call: nn_module.get_trainable_layers() is looked
\* up on every module in turn, and a module without it ends the constructor
SequentialInit(os, nn_modules) ==
    IF \E i \in 1..Len(nn_modules) : ~HasGetTrainableLayers(os[nn_modules[i]])
    THEN [self |-> None, err |-> "AttributeError"]
    ELSE [self |-> NewSequential(os, nn_modules), err |-> NoError]

Members == Handles \ Sequentials

\* kind(...) with one input channel, neuron or 1 x 1 kernel where it takes any
ConstructMember(kind) ==
    /\ Cardinality(Members) < MaxMembers
    /\ LET n == NextId(id_iter)
       IN /\ IF kind \in TrainableKinds
             THEN /\ id_iter' = n.counter
                  /\ issued' = Append(issued, n.value)
             ELSE UNCHANGED <<id_iter, issued>>
          /\ arrays' = IF kind = "FullyConnectedLayer"
                       THEN arrays \o <<InitialWeights(n.value, 1, 1),
                                        InitialBias(n.value, 1)>>
                       ELSE arrays
          /\ objs' = Append(objs,
                CASE kind = "FullyConnectedLayer" ->
                        NewFullyConnectedLayer(n.value, Len(arrays) + 1, Len(arrays) + 2)
                  [] kind \in {"Conv2dWithLoops", "Conv2d"} ->
                        NewConvLayer(kind, n.value, GenTensor4(1, 1, 1, 1, 1), <<1>>, 1, 0)
                  [] kind = "BatchNormalization2d" ->
                        NewBatchNormalization2d(n.value, 1, Fraction(1, 10), DefaultEps)
                  [] kind = "MaxPool2d" -> NewMaxPool2d(1, 1, 0, TRUE)
                  [] kind = "GlobalAveragePooling2D" -> NewGlobalAveragePooling2D
                  [] OTHER -> NewModule(kind))
    /\ fwdOut' = Append(fwdOut, None)
    /\ outcome' = Constructed(Len(objs) + 1)
    /\ UNCHANGED calls
    /\ UNCHANGED convVars

\* Sequential(nn_modules); a constructor that raises makes no object
ConstructSequentialOf(nn_modules) ==
    /\ Cardinality(Sequentials) < MaxSequentials
    /\ LET r == SequentialInit(objs, nn_modules)
       IN IF r.err = NoError
          THEN /\ objs' = Append(objs, r.self)
               /\ fwdOut' = Append(fwdOut, None)
               /\ outcome' = [op |-> "Sequential.__init__", target |-> Len(objs) + 1,
                              arg |-> nn_modules, ret |-> None, err |-> NoError]
          ELSE /\ outcome' = [op |-> "Sequential.__init__", target |-> 0,
                              arg |-> nn_modules, ret |-> None, err |-> r.err]
               /\ UNCHANGED <<objs, fwdOut>>
    /\ UNCHANGED <<id_iter, issued, arrays, calls>>
    /\ UNCHANGED convVars

MembersInit == WorldInit /\ ConvIdle

MembersNext ==
    \/ \E kind \in MemberKinds : ConstructMember(kind)
    \/ \E nn_modules \in ModuleLists : ConstructSequentialOf(nn_modules)

SpecMembers == MembersInit /\ [][MembersNext]_vars

\* C15: constructing a Sequential from any list of instances of the eleven
\* layer classes succeeds, and a member without parameters contributes no
\* entry to the container's list of trainable layers.
EveryLayerCanBeAMember ==
    (outcome # None /\ outcome.op = "Sequential.__init__") =>
        /\ outcome.err = NoError
        /\ \A i \in 1..Len(outcome.arg) :
              objs[outcome.arg[i]].kind \in MemberKinds \ TrainableKinds =>
                  \A j \in 1..Len(objs[outcome.target].trainable_layers) :
                      objs[outcome.target].trainable_layers[j] # outcome.arg[i]

(***************************************************************************)
(* Gradients of the trainable layers.  A network is built of layers with   *)
(* one channel or neuron (a single layer, or a Sequential over layers),    *)
(* and then the object built last is run forward and backward in any       *)
(* order on inputs of its kind; the output gradient has the shape of the   *)
(* output.                                                                 *)
(***************************************************************************)
ImageSize == 3          \* images are (1, 1, ImageSize, ImageSize)
MaxGradLayers == 2      \* layers constructed

\* a plausible slip: the bias is enumerated whether the layer has one or not
ConvGetParametersAndGradientsAndIdsWithBias(self) ==
    LET ids == GetWAndBIds(self)
    IN <<[parameter |-> self.weights, gradient |-> self.weights_gradient, id |-> ids[1]],
         [parameter |-> self.bias, gradient |-> self.bias_gradient, id |-> ids[2]]>>

\* Conv2dWithLoops.get_parameters_and_gradients_and_ids and
\* Conv2d.get_parameters_and_gradients_and_ids
ConvGetParametersAndGradientsAndIds(self) ==
    LET ids == GetWAndBIds(self)
        weights == <<[parameter |-> self.weights, gradient |-> self.weights_gradient,
                      id |-> ids[1]]>>
    IN IF self.bias # None
       THEN Append(weights, [parameter |-> self.bias, gradient |-> self.bias_gradient,
                             id |-> ids[2]])
       ELSE weights

\* BatchNormalization2d.get_parameters_and_gradients_and_ids
BatchNormGetParametersAndGradientsAndIds(self) ==
    <<[parameter |-> self.gamma, gradient |-> self.gamma_gradient,
       id |-> <<"g">> \o Str(self.id)],
      [parameter |-> self.beta, gradient |-> self.beta_gradient,
       id |-> <<"b">> \o Str(self.id)]>>

ConvKinds == {"Conv2dWithLoops", "Conv2d"}

\* nothing has been called yet: the network is built before it is used
NoCallYet ==
    IF outcome = None THEN TRUE
    ELSE outcome.op \in {"__init__", "Sequential.__init__"}

\* kind(1, 1) for a fully connected layer, kind(1, 1, 2, bias=bias) for a
\* convolution, kind(1) for a normalisation
ConstructTrainable(kind, bias) ==
    /\ NoCallYet
    /\ Cardinality(Members) < MaxGradLayers
    /\ kind \notin ConvKinds => bias
    /\ LET n == NextId(id_iter)
       IN /\ id_iter' = n.counter
          /\ issued' = Append(issued, n.value)
          /\ arrays' = IF kind = "FullyConnectedLayer"
                       THEN arrays \o <<InitialWeights(n.value, 1, 1),
                                        InitialBias(n.value, 1)>>
                       ELSE arrays
          /\ objs' = Append(objs,
                CASE kind = "FullyConnectedLayer" ->
                        NewFullyConnectedLayer(n.value, Len(arrays) + 1, Len(arrays) + 2)
                  [] kind \in ConvKinds ->
                        NewConvLayer(kind, n.value, GenTensor4(n.value + 1, 1, 1, 2, 2),
                                     IF bias THEN <<n.value + 1>> ELSE None, 1, 0)
                  [] kind = "BatchNormalization2d" ->
                        NewBatchNormalization2d(n.value, 1, Fraction(1, 10), DefaultEps))
    /\ fwdOut' = Append(fwdOut, None)
    /\ outcome' = Constructed(Len(objs) + 1)
    /\ UNCHANGED calls
    /\ UNCHANGED convVars

\* the lists a stack is built from: fully connected layers only,
\* convolutions only, or one normalisation
Stackable(nn_modules) ==
    \/ \A i \in 1..Len(nn_modules) : objs[nn_modules[i]].kind = "FullyConnectedLayer"
    \/ \A i \in 1..Len(nn_modules) : objs[nn_modules[i]].kind \in ConvKinds
    \/ Len(nn_modules) = 1 /\ objs[nn_modules[1]].kind = "BatchNormalization2d"

\* Sequential(nn_modules)
ConstructStack(nn_modules) ==
    /\ NoCallYet
    /\ Stackable(nn_modules)
    /\ ConstructSequentialOf(nn_modules)

\* the network is the object built last
Network == Len(objs)

FirstLayer(h) == IF objs[h].kind = "Sequential" THEN objs[h].nn_modules[1] ELSE h

LastLayer(h) ==
    IF objs[h].kind = "Sequential"
    THEN objs[h].nn_modules[Len(objs[h].nn_modules)]
    ELSE h

\* the layers of network h
LayersOf(h) ==
    IF objs[h].kind = "Sequential"
    THEN {objs[h].nn_modules[i] : i \in 1..Len(objs[h].nn_modules)}
    ELSE {h}

\* the inputs given to network h
NetworkInputs(h) ==
    IF objs[FirstLayer(h)].kind = "FullyConnectedLayer"
    THEN {<<<<-1>>>>, <<<<2>>, <<1>>>>}
    ELSE {GenTensor4(seed, 1, 1, ImageSize, ImageSize) : seed \in 1..NumSeeds}

\* the output gradients given to network h: of the shape of its last output
NetworkGradients(h) ==
    IF objs[LastLayer(h)].kind = "FullyConnectedLayer"
    THEN {[r \in 1..(IF fwdOut[h] = None THEN 1 ELSE Rows(fwdOut[h])) |->
              <<Gen(seed, r)>>] : seed \in 1..NumSeeds}
    ELSE IF objs[LastLayer(h)].kind = "BatchNormalization2d"
    THEN GradientsLikeInput(LastLayer(h))
    ELSE OutputGradients4(h)

NetworkForward(input_) ==
    /\ \A h \in LayersOf(Network) :
          objs[h].kind = "BatchNormalization2d" => objs[h].forwards < MaxForwards
    /\ CallForward(Network, input_)

NetworkBackward(output_gradient) == CallBackward(Network, output_gradient)

GradInit == WorldInit /\ ConvIdle

GradNext ==
    \/ \E kind \in TrainableKinds, bias \in BOOLEAN : ConstructTrainable(kind, bias)
    \/ \E nn_modules \in ModuleLists : ConstructStack(nn_modules)
    \/ /\ Network > 0
       /\ \E input_ \in NetworkInputs(Network) : NetworkForward(input_)
    \/ /\ Network > 0
       /\ \E output_gradient \in NetworkGradients(Network) :
              NetworkBackward(output_gradient)

SpecGrad == GradInit /\ [][GradNext]_vars

\* the last top-level call was op on a layer of one of the kinds
LayerCallDone(op, kinds) ==
    /\ outcome # None
    /\ outcome.op = op
    /\ objs[outcome.target].kind \in kinds
    /\ outcome.err = NoError

\* the layer as its constructor leaves it, with the parameters it has now
FreshLayer(self) ==
    CASE self.kind = "FullyConnectedLayer" ->
            NewFullyConnectedLayer(self.id, self.weights, self.bias)
      [] self.kind \in ConvKinds ->
            NewConvLayer(self.kind, self.id, self.weights, self.bias,
                         self.stride, self.padding)
      [] self.kind = "BatchNormalization2d" ->
            [NewBatchNormalization2d(self.id, self.n_channels, self.momentum, self.eps)
                EXCEPT !.gamma = self.gamma, !.beta = self.beta]

\* forward(input_) and then backward(output_gradient) on layer h with
\* everything but its parameters forgotten
Replay(h, input_, output_gradient) ==
    LET fresh == [Machine EXCEPT !.objs[h] = FreshLayer(objs[h])]
    IN Backward(Forward(fresh, h, input_), h, output_gradient)

\* the gradients layer self stores
GradientsOf(self) ==
    IF self.kind = "BatchNormalization2d"
    THEN <<self.gamma_gradient, self.beta_gradient>>
    ELSE <<self.weights_gradient, self.bias_gradient>>

\* the calls of the last top-level call op that reached a trainable layer
\* and returned
LayerCalls(op) ==
    IF outcome = None THEN {}
    ELSE IF outcome.op # op THEN {}
    ELSE {i \in 1..Len(calls) :
             /\ calls[i].op = op
             /\ calls[i].err = NoError
             /\ objs[calls[i].callee].kind \in TrainableKinds}

\* C16: what backward stores and returns on a fully connected layer, a
\* convolution of either variant or a training-mode normalisation depends
\* only on the input of the layer's latest forward and on the output
\* gradient of this backward: a layer with the same parameters that has
\* seen nothing but these two calls stores and returns the same, and the
\* input a layer caches is that of its latest forward.
GradientsDependOnLatestCallsOnly ==
    /\ \A i \in LayerCalls("forward") :
          objs[calls[i].callee].input_ = calls[i].arg
    /\ \A i \in LayerCalls("backward") :
          LET h == calls[i].callee
              again == Replay(h, objs[h].input_, calls[i].arg)
          IN /\ again.err = NoError
             /\ again.ret = calls[i].ret
             /\ GradientsOf(again.objs[h]) = GradientsOf(objs[h])

\* a backward has returned on a normalisation layer that had run forward
\* before its latest forward
GradientsDependOnLatestCallsOnlyWitness ==
    /\ LayerCallDone("backward", {"BatchNormalization2d"})
    /\ objs[outcome.target].forwards >= 2

\* what get_parameters_and_gradients_and_ids of trainable layer h returns,
\* with the arrays themselves as parameters
ParametersAndGradients(h) ==
    CASE objs[h].kind = "FullyConnectedLayer" ->
            LET triples == GetParametersAndGradientsAndIds(objs, h)
            IN [i \in 1..Len(triples) |->
                   [triples[i] EXCEPT !.parameter = arrays[triples[i].parameter]]]
      [] objs[h].kind \in ConvKinds -> ConvGetParametersAndGradientsAndIds(objs[h])
      [] objs[h].kind = "BatchNormalization2d" ->
            BatchNormGetParametersAndGradientsAndIds(objs[h])

\* the shape of the i-th parameter of a layer of this kind (gamma and beta
\* are (1, n_channels, 1, 1) arrays, kept as their n_channels entries)
ParameterShape(kind, i, parameter) ==
    CASE kind = "FullyConnectedLayer" -> <<Rows(parameter), Cols(parameter)>>
      [] kind \in ConvKinds /\ i = 1 -> Shape4(parameter)
      [] kind \in ConvKinds /\ i = 2 -> <<Len(parameter)>>
      [] kind = "BatchNormalization2d" -> <<1, Len(parameter), 1, 1>>

\* the shape of the gradient stored for it (the gradient of gamma is the sum
\* over all axes but the channels of output_gradient * norm_input)
GradientShape(kind, i, gradient) ==
    IF kind = "BatchNormalization2d" /\ i = 1
    THEN <<1, Len(gradient.output_gradient[1]), 1, 1>>
    ELSE ParameterShape(kind, i, gradient)

TrainableLayers == {h \in Handles : objs[h].kind \in TrainableKinds}

\* layer h enumerates no parameter with a gradient
NoGradientYet(os, h) == \A i \in 1..2 : GradientsOf(os[h])[i] = None

\* the step is a top-level backward that reaches layer h
BackwardReaches(h) ==
    /\ outcome' # None
    /\ outcome'.op = "backward"
    /\ \E i \in 1..Len(calls') : calls'[i].op = "backward" /\ calls'[i].callee = h

\* after a backward of a Sequential that returned, the layers it lists
\* enumerate only parameters with a gradient of the parameter's shape
GradientsPresent ==
    (outcome # None /\ outcome.op = "backward" /\ outcome.err = NoError
     /\ objs[outcome.target].kind = "Sequential") =>
        \A j \in 1..Len(objs[outcome.target].trainable_layers) :
           LET h == objs[outcome.target].trainable_layers[j]
               triples == ParametersAndGradients(h)
           IN \A i \in 1..Len(triples) :
                 /\ triples[i].gradient # None
                 /\ GradientShape(objs[h].kind, i, triples[i].gradient)
                        = ParameterShape(objs[h].kind, i, triples[i].parameter)

\* a convolution without bias enumerates its weights and nothing else
BiasDisabledEnumeratesWeightOnly ==
    \A h \in Handles :
       (objs[h].kind \in ConvKinds /\ objs[h].bias = None) =>
           /\ Len(ParametersAndGradients(h)) = 1
           /\ ParametersAndGradients(h)[1].parameter = objs[h].weights
           /\ ParametersAndGradients(h)[1].gradient = objs[h].weights_gradient

\* C18: a layer's gradients are absent when it is constructed and stay
\* absent until a backward call reaches the layer; after a forward and a
\* backward of a Sequential every parameter its trainable layers enumerate
\* has a gradient of the parameter's shape; a convolution constructed with
\* bias=False enumerates only its weights.
GradientsAbsentUntilBackward ==
    /\ [](GradientsPresent /\ BiasDisabledEnumeratesWeightOnly)
    /\ [][\A h \in 1..Len(objs') :
             objs'[h].kind \in TrainableKinds =>
                 IF h > Len(objs) THEN NoGradientYet(objs', h)
                 ELSE (NoGradientYet(objs, h) /\ ~BackwardReaches(h)) =>
                          NoGradientYet(objs', h)]_vars

\* forward and then backward have returned on a Sequential over two layers,
\* one of them a convolution without bias
GradientsAbsentUntilBackwardWitness ==
    /\ LayerCallDone("backward", {"Sequential"})
    /\ Len(objs[outcome.target].trainable_layers) = 2
    /\ \E j \in 1..2 :
          LET self == objs[objs[outcome.target].trainable_layers[j]]
          IN self.kind \in ConvKinds /\ self.bias = None /\ self.weights_gradient # None

Conv2ds == {h \in Handles : objs[h].kind = "Conv2d"}

\* the step is a top-level backward call on object h
BackwardCalledOn(h) ==
    /\ outcome' # None
    /\ outcome'.op = "backward"
    /\ outcome'.target = h

\* the last top-level call was op on object h and it returned
Returned(op, h) ==
    /\ outcome # None
    /\ outcome.op = op
    /\ outcome.target = h
    /\ outcome.err = NoError

\* C19: a backward of Conv2d that returns leaves no unfolded input cached;
\* a backward called right after it, with no forward in between, raises
\* and leaves weights, bias, weights_gradient and bias_gradient as the
\* first backward left them; a backward called right after a forward
\* returns.
SecondBackwardFailsAndChangesNothing ==
    [][\A h \in Conv2ds :
          /\ BackwardCalledOn(h) =>
                (outcome'.err = NoError => objs'[h].converted_input = None)
          /\ (Returned("backward", h) /\ BackwardCalledOn(h)) =>
                /\ outcome'.err # NoError
                /\ objs'[h].weights = objs[h].weights
                /\ objs'[h].bias = objs[h].bias
                /\ objs'[h].weights_gradient = objs[h].weights_gradient
                /\ objs'[h].bias_gradient = objs[h].bias_gradient
          /\ (Returned("forward", h) /\ BackwardCalledOn(h)) =>
                outcome'.err = NoError]_vars

\* a backward on a Conv2d has raised although the layer holds the gradient
\* of an earlier backward and the input of a forward
SecondBackwardFailsAndChangesNothingWitness ==
    /\ outcome # None
    /\ outcome.op = "backward"
    /\ objs[outcome.target].kind = "Conv2d"
    /\ outcome.err = "AttributeError"
    /\ objs[outcome.target].weights_gradient # None
    /\ objs[outcome.target].input_ # None

====
